---- MODULE Spec2Model ----
(***************************************************************************)
(* TradeScope Analytics: the service wrappers (TradingService,             *)
(* BrokerCredentialService, AuthService) over the backend client, and the  *)
(* useTrading hook with the trade-management view that drives it.          *)
(*                                                                         *)
(* JavaScript values are tagged records: Null, Undef, Str(s), Num(n).      *)
(* Numbers are held in tenths (Num(25) is 2.5) so that parseInt differs    *)
(* from parseFloat.  A service result is a record whose DOMAIN is the set  *)
(* of keys of the object the method returns.                               *)
(***************************************************************************)
EXTENDS Integers, Sequences, FiniteSets, TLC

VARIABLES
    user,        \* the authenticated user of the backend session, or NoUser
    tradesDb,    \* backend table trades: a set of rows with distinct ids
    call,        \* the last service invocation: method, arguments, requests, outcome
    analyticsDb, \* backend table analytics_data: a set of rows with distinct ids
    trades,      \* useTrading: the trades list
    accounts,    \* useTrading: the accounts list
    analytics,   \* useTrading: the analytics list
    loading,     \* useTrading: the loading flags
    hookError,   \* useTrading: the error state
    pending,     \* the requests of useTrading actions that are in flight
    channels,    \* the realtime channels of the subscription effect
    view,        \* the view that uses the hook: its lifecycle and its filters
    stats,       \* history: invocations of hook actions and requests they issued
    brokersDb,   \* backend table brokers: a set of rows with distinct ids
    entered,     \* history: the credentials last stored for each broker id
    accountsDb   \* backend table trading_accounts: the rows inserted for brokers

hookVars == <<analyticsDb, trades, accounts, analytics, loading, hookError, pending,
              channels, view, stats>>

brokerVars == <<brokersDb, entered, accountsDb>>

vars == <<user, tradesDb, call, hookVars, brokerVars>>

-----------------------------------------------------------------------------
(* Bounds of the model *)

MaxTrades == 1      \* ids of trade rows are 1..MaxTrades

TradeIds == 1..MaxTrades
Times == {1, 2}     \* the values new Date() takes
Prices == {10, 25}
Users == {"u1", "u2"}
BrokerIds == {1, 2}
NoUser == "none"

-----------------------------------------------------------------------------
(* JavaScript values *)

Null == [t |-> "null"]
Undef == [t |-> "undef"]
Str(s) == [t |-> "str", v |-> s]
Num(n) == [t |-> "num", v |-> n]
NaN == [t |-> "nan"]

\* A date, as the string the date inputs hold: never empty.
Date(d) == [t |-> "date", v |-> d]

\* JavaScript truthiness: "", 0, NaN, null and undefined are falsy.
Truthy(x) ==
    CASE x.t = "str" -> x.v # ""
      [] x.t = "num" -> x.v # 0
      [] x.t = "date" -> TRUE
      [] OTHER -> FALSE

\* a || b
OrElse(a, b) == IF Truthy(a) THEN a ELSE b

\* The three ways one backend request can end: the client resolves with data,
\* resolves with {error}, or raises an exception (the fetch failed).
Outcomes == {"ok", "error", "throw"}

BackendMessage == Str("backend error")

-----------------------------------------------------------------------------
(* The backend's trades table *)

NoPrice == 0
NoTime == 0

TradeRow(i, st, px, ct) == [id |-> i, status |-> st, exit_price |-> px, closed_at |-> ct]

HasRow(db, i) == \E r \in db : r.id = i
RowOf(db, i) == CHOOSE r \in db : r.id = i

\* Columns of a row overwritten by the columns of the patch that the row has.
Patched(row, patch) ==
    [c \in DOMAIN row |-> IF c \in DOMAIN patch THEN patch[c] ELSE row[c]]

\* from('trades').update(payload).eq('id', id).select().single()
\*   ok    : the row is patched and returned; no matching row is an error of single()
\*   error : the backend refuses, the table is unchanged
\*   throw : the request raises, the table is unchanged
PgUpdateTrade(db, i, payload, o) ==
    IF o = "throw" THEN [threw |-> TRUE, db |-> db]
    ELSE IF o = "error" \/ ~HasRow(db, i)
         THEN [threw |-> FALSE, failed |-> TRUE, message |-> BackendMessage, db |-> db]
         ELSE LET new == Patched(RowOf(db, i), payload)
              IN [threw |-> FALSE, failed |-> FALSE, data |-> new,
                  db |-> (db \ {RowOf(db, i)}) \cup {new}]

\* from('trades').delete().eq('id', id): deleting no row is not an error
PgDeleteTrade(db, i, o) ==
    IF o = "throw" THEN [threw |-> TRUE, db |-> db]
    ELSE IF o = "error"
         THEN [threw |-> FALSE, failed |-> TRUE, message |-> BackendMessage, db |-> db]
         ELSE [threw |-> FALSE, failed |-> FALSE, db |-> {r \in db : r.id # i}]

-----------------------------------------------------------------------------
(* TradingService: updateTrade, closeTrade, deleteTrade *)

\* A request as the service hands it to the backend client.
Request(op, table, match, payload) ==
    [op |-> op, table |-> table, match |-> match, payload |-> payload]

\* What one invocation of a service method did: the requests it issued in
\* order, whether its promise resolved or rejected, the object it resolved to
\* and the table after it.
Done(method, args, reqs, settled, res, db) ==
    [method |-> method, args |-> args, reqs |-> reqs, settled |-> settled,
     res |-> res, db |-> db]

\* supabase.auth.getUser(): { data: { user }, error }
AuthGetUser(usr, o) ==
    IF o = "throw" THEN [threw |-> TRUE]
    ELSE IF o = "error" THEN [threw |-> FALSE, failed |-> TRUE, user |-> NoUser]
    ELSE [threw |-> FALSE, failed |-> FALSE, user |-> usr]

GetUserRequest == Request("getUser", "auth", Null, Null)

\* { ...updates, updated_at: now }
UpdatePayload(updates, now) == [updated_at |-> now] @@ updates

updateTrade(db, tradeId, updates, now, o) ==
    LET payload == UpdatePayload(updates, now)
        req == Request("update", "trades", [id |-> tradeId], payload)
        r == PgUpdateTrade(db, tradeId, payload, o)
        args == [tradeId |-> tradeId, updates |-> updates]
    IN IF r.threw
       THEN Done("updateTrade", args, <<req>>, "resolved",
                 [success |-> FALSE, data |-> Null, error |-> Str("Failed to update trade")], r.db)
       ELSE IF r.failed
       THEN Done("updateTrade", args, <<req>>, "resolved",
                 [success |-> FALSE, data |-> Null, error |-> r.message], r.db)
       ELSE Done("updateTrade", args, <<req>>, "resolved",
                 [success |-> TRUE, data |-> r.data, error |-> Null], r.db)

\* closeTrade that leaves closed_at as it was
ClosePayloadKeepsClosedAt(exitPrice, closedAt, now) ==
    [exit_price |-> exitPrice, status |-> "closed", updated_at |-> now]

ClosePayload(exitPrice, closedAt, now) ==
    [exit_price |-> exitPrice, status |-> "closed", closed_at |-> closedAt,
     updated_at |-> now]

closeTrade(db, tradeId, exitPrice, closedAt, now, o) ==
    LET payload == ClosePayload(exitPrice, closedAt, now)
        req == Request("update", "trades", [id |-> tradeId], payload)
        r == PgUpdateTrade(db, tradeId, payload, o)
        args == [tradeId |-> tradeId, exitPrice |-> exitPrice, closedAt |-> closedAt]
    IN IF r.threw
       THEN Done("closeTrade", args, <<req>>, "resolved",
                 [success |-> FALSE, data |-> Null, error |-> Str("Failed to close trade")], r.db)
       ELSE IF r.failed
       THEN Done("closeTrade", args, <<req>>, "resolved",
                 [success |-> FALSE, data |-> Null, error |-> r.message], r.db)
       ELSE Done("closeTrade", args, <<req>>, "resolved",
                 [success |-> TRUE, data |-> r.data, error |-> Null], r.db)

deleteTrade(db, tradeId, o) ==
    LET req == Request("delete", "trades", [id |-> tradeId], Null)
        r == PgDeleteTrade(db, tradeId, o)
        args == [tradeId |-> tradeId]
    IN IF r.threw
       THEN Done("deleteTrade", args, <<req>>, "resolved",
                 [success |-> FALSE, error |-> Str("Failed to delete trade")], r.db)
       ELSE IF r.failed
       THEN Done("deleteTrade", args, <<req>>, "resolved",
                 [success |-> FALSE, error |-> r.message], r.db)
       ELSE Done("deleteTrade", args, <<req>>, "resolved",
                 [success |-> TRUE, error |-> Null], r.db)

-----------------------------------------------------------------------------
(* TradingService.createTrade *)

\* Numeric strings a form field can hold, with their value in tenths.
Numerals == ("3" :> 30) @@ ("2.5" :> 25) @@ ("0" :> 0)

\* parseFloat(x) of a number, of a numeric string, of anything else
ParseFloat(x) ==
    CASE x.t = "num" -> x
      [] x.t = "str" /\ x.v \in DOMAIN Numerals -> Num(Numerals[x.v])
      [] OTHER -> NaN

\* parseInt(x): parseFloat truncated to a whole number
ParseInt(x) ==
    LET f == ParseFloat(x)
    IN IF f.t = "num" THEN Num((f.v \div 10) * 10) ELSE NaN

\* x?.toString() of a string or of an absent value
toStringOf(x) == IF x.t \in {"null", "undef"} THEN Undef ELSE x

\* createTrade that hands its argument to insert() as it is
InsertPayloadUnchanged(tradeData, userId, now) == tradeData

\* The object createTrade hands to insert().
InsertPayload(tradeData, userId, now) ==
    [instrument |-> toStringOf(tradeData.instrument),
     tradeType |-> toStringOf(tradeData.tradeType),
     quantity |-> ParseInt(tradeData.quantity),
     entryPrice |-> ParseFloat(tradeData.entryPrice),
     exitPrice |-> IF Truthy(tradeData.exitPrice)
                   THEN ParseFloat(tradeData.exitPrice) ELSE Null,
     tradeDate |-> OrElse(tradeData.tradeDate, Num(now)),
     strategy |-> OrElse(tradeData.strategy, Null),
     notes |-> OrElse(tradeData.notes, Null),
     process |-> OrElse(tradeData.process, Str("manual")),
     pnl |-> OrElse(tradeData.pnl, Num(0)),
     pnlCurrency |-> OrElse(tradeData.pnlCurrency, Str("INR")),
     userId |-> Str(userId)]

FreeIds(db) == {i \in TradeIds : ~HasRow(db, i)}
NextId(db) == CHOOSE i \in FreeIds(db) : \A j \in FreeIds(db) : i <= j

\* from('trades').insert(payload).select().single(): the backend gives the row
\* its id and the column defaults of a new trade and returns the row.
PgInsertTrade(db, payload, o) ==
    IF o = "throw" THEN [threw |-> TRUE, db |-> db]
    ELSE IF o = "error"
         THEN [threw |-> FALSE, failed |-> TRUE, message |-> BackendMessage, db |-> db]
         ELSE LET new == TradeRow(NextId(db), "open", NoPrice, NoTime)
              IN [threw |-> FALSE, failed |-> FALSE, data |-> new @@ payload,
                  db |-> db \cup {new}]

\* A validation that rejects the fields that are absent only
MissingIfAbsent(tradeData) ==
    \/ tradeData.instrument = Undef
    \/ tradeData.quantity = Undef
    \/ tradeData.entryPrice = Undef

\* !tradeData?.instrument || !tradeData?.quantity || !tradeData?.entryPrice
MissingRequired(tradeData) ==
    \/ ~Truthy(tradeData.instrument)
    \/ ~Truthy(tradeData.quantity)
    \/ ~Truthy(tradeData.entryPrice)

createTrade(db, usr, tradeData, now, oUser, oInsert) ==
    LET u == AuthGetUser(usr, oUser)
        fail(reqs, msg) ==
            Done("createTrade", tradeData, reqs, "resolved",
                 [success |-> FALSE, data |-> Null, error |-> msg], db)
    IN IF u.threw THEN fail(<<GetUserRequest>>, Str("Failed to create trade"))
       ELSE IF u.failed \/ u.user = NoUser
       THEN fail(<<GetUserRequest>>, Str("User not authenticated"))
       ELSE IF u.user = "" THEN fail(<<GetUserRequest>>, Str("Invalid user ID"))
       ELSE IF MissingRequired(tradeData)
       THEN fail(<<GetUserRequest>>, Str("Missing required trade data"))
       ELSE LET payload == InsertPayload(tradeData, u.user, now)
                req == Request("insert", "trades", Null, payload)
                r == PgInsertTrade(db, payload, oInsert)
            IN IF r.threw THEN fail(<<GetUserRequest, req>>, Str("Failed to create trade"))
               ELSE IF r.failed THEN fail(<<GetUserRequest, req>>, r.message)
               ELSE Done("createTrade", tradeData, <<GetUserRequest, req>>, "resolved",
                         [success |-> TRUE, data |-> r.data, error |-> Null], r.db)

-----------------------------------------------------------------------------
(* Specification of updateTrade, closeTrade and deleteTrade over the table *)

NoCall == [method |-> "none"]

\* The argument objects of updateTrade the model draws from.
UpdateInputs ==
    {[status |-> "open"], [exit_price |-> 25], [status |-> "closed", closed_at |-> 1]}

\* The record of an invocation, with the row the request matched before it.
Recorded(d, db, i) ==
    [method |-> d.method, args |-> d.args, reqs |-> d.reqs, settled |-> d.settled,
     res |-> d.res,
     before |-> IF HasRow(db, i) THEN {RowOf(db, i)} ELSE {}]

\* useTrading as its useState calls leave it, with no view mounted.
NoLoading == [trades |-> FALSE, accounts |-> FALSE, brokers |-> FALSE,
              strategies |-> FALSE, portfolio |-> FALSE, analytics |-> FALSE]
NoChannels == [trades |-> "none", analytics |-> "none"]
NoStats == [invoked |-> 0, issued |-> 0, failed |-> 0,
            unsubscribed |-> [trades |-> 0, analytics |-> 0]]
DefaultLimit == 50
DefaultFilters == [status |-> Str(""), limit |-> DefaultLimit, offset |-> 0]
NoView == [state |-> "unmounted", filters |-> DefaultFilters]

HookIdle ==
    /\ trades = <<>>
    /\ accounts = <<>>
    /\ analytics = <<>>
    /\ loading = NoLoading
    /\ hookError = Null
    /\ pending = <<>>
    /\ channels = NoChannels
    /\ view = NoView
    /\ stats = NoStats

NoneEntered == [i \in BrokerIds |-> Null]

BrokerIdle ==
    /\ brokersDb = {}
    /\ entered = NoneEntered
    /\ accountsDb = {}

InitTrade ==
    /\ HookIdle
    /\ BrokerIdle
    /\ analyticsDb = {}
    /\ user = "u1"
    /\ \E S \in SUBSET TradeIds :
          tradesDb = {TradeRow(i, "open", NoPrice, NoTime) : i \in S}
    /\ call = NoCall

UpdateTrade(i, updates, now, o) ==
    LET d == updateTrade(tradesDb, i, updates, now, o)
    IN /\ tradesDb' = d.db
       /\ call' = Recorded(d, tradesDb, i)
       /\ UNCHANGED <<brokerVars, user, hookVars>>

CloseTrade(i, px, closedAt, now, o) ==
    LET d == closeTrade(tradesDb, i, px, closedAt, now, o)
    IN /\ tradesDb' = d.db
       /\ call' = Recorded(d, tradesDb, i)
       /\ UNCHANGED <<brokerVars, user, hookVars>>

DeleteTrade(i, o) ==
    LET d == deleteTrade(tradesDb, i, o)
    IN /\ tradesDb' = d.db
       /\ call' = Recorded(d, tradesDb, i)
       /\ UNCHANGED <<brokerVars, user, hookVars>>

NextTrade ==
    \/ \E i \in TradeIds, u \in UpdateInputs, now \in Times, o \in Outcomes :
          UpdateTrade(i, u, now, o)
    \/ \E i \in TradeIds, px \in Prices, ct \in Times, now \in Times, o \in Outcomes :
          CloseTrade(i, px, ct, now, o)
    \/ \E i \in TradeIds, o \in Outcomes : DeleteTrade(i, o)

SpecTrade == InitTrade /\ [][NextTrade]_vars

-----------------------------------------------------------------------------
(* TradingService.getPortfolioSummary *)

\* A select that returns the list the backend holds.
PgSelectAll(rows, o) ==
    IF o = "throw" THEN [threw |-> TRUE]
    ELSE IF o = "error" THEN [threw |-> FALSE, failed |-> TRUE, message |-> BackendMessage]
    ELSE [threw |-> FALSE, failed |-> FALSE, data |-> rows]

\* parseFloat(x) || 0, in tenths
FloatOrZero(x) == LET f == ParseFloat(x) IN IF Truthy(f) THEN f.v ELSE 0

RECURSIVE SumOf(_, _)
\* rows.reduce((sum, row) => sum + (parseFloat(row[column]) || 0), 0)
SumOf(rows, column) ==
    IF rows = <<>> THEN 0
    ELSE FloatOrZero(Head(rows)[column]) + SumOf(Tail(rows), column)

\* totalBalance > 0 ? (totalPnL / totalBalance) * 100 : 0, in tenths, truncated
PnLPercentage(totalPnL, totalBalance) ==
    IF totalBalance > 0 THEN (totalPnL * 1000) \div totalBalance ELSE 0

getPortfolioSummary(portfolios, accountRows, oPortfolios, oAccounts) ==
    LET req1 == Request("select", "portfolios", Null, Null)
        req2 == Request("select", "trading_accounts", [is_active |-> TRUE], Null)
        p == PgSelectAll(portfolios, oPortfolios)
        a == PgSelectAll(accountRows, oAccounts)
        args == [portfolios |-> portfolios, accounts |-> accountRows]
        done(reqs, res) ==
            [method |-> "getPortfolioSummary", args |-> args, reqs |-> reqs,
             settled |-> "resolved", res |-> res]
        caught == [success |-> FALSE, data |-> Null,
                   error |-> Str("Failed to fetch portfolio summary")]
    IN IF p.threw THEN done(<<req1>>, caught)
       ELSE IF p.failed
       THEN done(<<req1>>, [success |-> FALSE, data |-> Null, error |-> p.message])
       ELSE IF a.threw THEN done(<<req1, req2>>, caught)
       ELSE IF a.failed
       THEN done(<<req1, req2>>, [success |-> FALSE, data |-> Null, error |-> a.message])
       ELSE LET totalBalance == SumOf(a.data, "balance")
                totalPnL == SumOf(p.data, "total_pnl")
            IN done(<<req1, req2>>,
                    [success |-> TRUE,
                     data |-> [portfolios |-> p.data,
                               totalBalance |-> totalBalance,
                               totalPnL |-> totalPnL,
                               totalPnLPercentage |->
                                   PnLPercentage(totalPnL, totalBalance)],
                     error |-> Null])

-----------------------------------------------------------------------------
(* AuthService: signIn, signOut, getCurrentSession *)

\* An exception of the auth client is a failed fetch or anything else.
AuthOutcomes == Outcomes \cup {"throwFetch"}

CannotConnect == Str("Cannot connect to authentication service")
SomethingWrong == Str("Something went wrong. Please try again.")

\* supabase.auth.signInWithPassword({email, password}); an error of the backend
\* carries a message or none.
signIn(usr, account, o, message) ==
    LET req == Request("signInWithPassword", "auth", Null, account)
        done(res, u) ==
            [method |-> "signIn", args |-> account, reqs |-> <<req>>,
             settled |-> "resolved", res |-> res, user |-> u]
    IN CASE o = "throwFetch" -> done([success |-> FALSE, error |-> CannotConnect], usr)
         [] o = "throw" -> done([success |-> FALSE, error |-> SomethingWrong], usr)
         [] o = "error" ->
              done([success |-> FALSE,
                    error |-> OrElse(message, Str("Sign in failed"))], usr)
         [] OTHER ->
              done([success |-> TRUE, data |-> [user |-> account], error |-> Null],
                   account)

signOut(usr, o, message) ==
    LET req == Request("signOut", "auth", Null, Null)
        done(res, u) ==
            [method |-> "signOut", args |-> Null, reqs |-> <<req>>,
             settled |-> "resolved", res |-> res, user |-> u]
    IN CASE o \in {"throw", "throwFetch"} ->
              done([success |-> FALSE, error |-> SomethingWrong], usr)
         [] o = "error" ->
              done([success |-> FALSE,
                    error |-> OrElse(message, Str("Sign out failed"))], usr)
         [] OTHER -> done([success |-> TRUE, error |-> Null], NoUser)

getCurrentSession(usr, o) ==
    LET req == Request("getSession", "auth", Null, Null)
        done(res) ==
            [method |-> "getCurrentSession", args |-> Null, reqs |-> <<req>>,
             settled |-> "resolved", res |-> res, user |-> usr]
    IN CASE o \in {"throw", "throwFetch"} ->
              done([success |-> FALSE, session |-> Null, error |-> Str("Failed to get session")])
         [] o = "error" ->
              done([success |-> FALSE, session |-> Null, error |-> BackendMessage])
         [] OTHER ->
              done([success |-> TRUE,
                    session |-> IF usr = NoUser THEN Null ELSE [user |-> usr],
                    error |-> Null])

-----------------------------------------------------------------------------
(* Specification of createTrade under a session that signs in and out *)

\* The argument objects of createTrade the model draws from: the required
\* fields present, absent, zero or numeric strings, and the optional fields
\* all absent or all given.
TradeData(instrument, quantity, entryPrice, given) ==
    [instrument |-> instrument, tradeType |-> IF given THEN Str("buy") ELSE Undef,
     quantity |-> quantity, entryPrice |-> entryPrice,
     exitPrice |-> IF given THEN Str("3") ELSE Undef,
     tradeDate |-> Undef, strategy |-> Undef,
     notes |-> IF given THEN Str("note") ELSE Undef,
     process |-> IF given THEN Str("auto") ELSE Undef,
     pnl |-> IF given THEN Num(25) ELSE Undef,
     pnlCurrency |-> IF given THEN Str("USD") ELSE Undef]

TradeInputs ==
    {TradeData(i, q, e, g) :
        i \in {Str("AAPL"), Undef},
        q \in {Num(25), Str("3"), Num(0)},
        e \in {Num(105), Str("2.5"), Num(0)},
        g \in BOOLEAN}

InitCreate ==
    /\ HookIdle
    /\ BrokerIdle
    /\ analyticsDb = {}
    /\ user = NoUser
    /\ tradesDb = {}
    /\ call = NoCall

SignIn(account, o, message) ==
    LET d == signIn(user, account, o, message)
    IN /\ user' = d.user
       /\ call' = d
       /\ UNCHANGED <<brokerVars, tradesDb, hookVars>>

SignOut(o, message) ==
    LET d == signOut(user, o, message)
    IN /\ user' = d.user
       /\ call' = d
       /\ UNCHANGED <<brokerVars, tradesDb, hookVars>>

GetCurrentSession(o) ==
    /\ call' = getCurrentSession(user, o)
    /\ UNCHANGED <<brokerVars, user, tradesDb, hookVars>>

\* The table holds at most MaxTrades rows: createTrade waits for a free id.
CreateTrade(tradeData, now, oUser, oInsert) ==
    /\ FreeIds(tradesDb) # {}
    /\ LET d == createTrade(tradesDb, user, tradeData, now, oUser, oInsert)
       IN /\ tradesDb' = d.db
          /\ call' = [method |-> d.method, args |-> d.args, reqs |-> d.reqs,
                      settled |-> d.settled, res |-> d.res, user |-> user,
                      answered |-> oUser]
          /\ UNCHANGED <<brokerVars, user, hookVars>>

\* deleteTrade of a row, which frees its id
DeleteCreated(i, o) ==
    LET d == deleteTrade(tradesDb, i, o)
    IN /\ tradesDb' = d.db
       /\ call' = [method |-> d.method, args |-> d.args, reqs |-> d.reqs,
                   settled |-> d.settled, res |-> d.res, user |-> user]
       /\ UNCHANGED <<brokerVars, user, hookVars>>

\* updateTrade of a created row
UpdateCreated(i, updates, now, o) ==
    LET d == updateTrade(tradesDb, i, updates, now, o)
    IN /\ tradesDb' = d.db
       /\ call' = [method |-> d.method, args |-> d.args, reqs |-> d.reqs,
                   settled |-> d.settled, res |-> d.res, user |-> user]
       /\ UNCHANGED <<brokerVars, user, hookVars>>

\* The rows of portfolios and of active trading accounts the backend may hold.
PortfolioTables == {<<>>, <<[total_pnl |-> Num(50)]>>,
                    <<[total_pnl |-> Str("2.5")], [total_pnl |-> Null]>>}
AccountTables == {<<>>, <<[balance |-> Num(1000), currency |-> "USD"]>>,
                  <<[balance |-> Str("3"), currency |-> "INR"],
                    [balance |-> Num(25), currency |-> "INR"]>>}

GetPortfolioSummary(portfolios, accountRows, o1, o2) ==
    /\ call' = getPortfolioSummary(portfolios, accountRows, o1, o2) @@ [user |-> user]
    /\ UNCHANGED <<brokerVars, user, tradesDb, hookVars>>

NextCreate ==
    \/ \E a \in Users, o \in AuthOutcomes, m \in {Undef, BackendMessage} : SignIn(a, o, m)
    \/ \E o \in AuthOutcomes, m \in {Undef, BackendMessage} : SignOut(o, m)
    \/ \E o \in AuthOutcomes : GetCurrentSession(o)
    \/ \E td \in TradeInputs, now \in Times, o1 \in Outcomes, o2 \in Outcomes :
          CreateTrade(td, now, o1, o2)
    \/ \E i \in TradeIds, o \in Outcomes : DeleteCreated(i, o)
    \/ \E i \in TradeIds, now \in Times, o \in Outcomes :
          UpdateCreated(i, [exit_price |-> 25], now, o)
    \/ \E p \in PortfolioTables, a \in AccountTables, o1 \in Outcomes, o2 \in Outcomes :
          GetPortfolioSummary(p, a, o1, o2)

SpecCreate == InitCreate /\ [][NextCreate]_vars

-----------------------------------------------------------------------------
(* TradingService.getAnalyticsData and useTrading.loadAnalytics *)

MaxRows == 2        \* ids of analytics rows are 1..MaxRows
MaxInFlight == 1    \* requests of hook actions in flight at a time

AnalyticsIds == 1..MaxRows
Dates == {1, 2, 3}

AnalyticsRow(i, d) == [id |-> i, date |-> d]

\* The tables analytics_data can be: any rows with distinct ids.
AnalyticsTables ==
    UNION {{{AnalyticsRow(i, f[i]) : i \in S} : f \in [S -> Dates]} :
           S \in SUBSET AnalyticsIds}

\* getAnalyticsData with the order of the rows reversed
AnalyticsQueryDescending(filters) ==
    Request("select", "analytics_data",
            [gte |-> IF Truthy(filters.dateFrom) THEN {filters.dateFrom.v} ELSE {},
             lte |-> IF Truthy(filters.dateTo) THEN {filters.dateTo.v} ELSE {},
             ascending |-> FALSE],
            Null)

\* from('analytics_data').select('*') [.gte('date', dateFrom)] [.lte('date', dateTo)]
\*   .order('date', { ascending: true })
AnalyticsQuery(filters) ==
    Request("select", "analytics_data",
            [gte |-> IF Truthy(filters.dateFrom) THEN {filters.dateFrom.v} ELSE {},
             lte |-> IF Truthy(filters.dateTo) THEN {filters.dateTo.v} ELSE {},
             ascending |-> TRUE],
            Null)

Matching(db, q) ==
    {r \in db : /\ \A d \in q.match.gte : r.date >= d
                /\ \A d \in q.match.lte : r.date <= d}

InOrder(a, b, ascending) == IF ascending THEN a <= b ELSE a >= b

\* The lists the backend may answer the query with: the matching rows, each
\* once, ordered by date as the query asks; rows of one date come in any order.
PgAnswers(db, q) ==
    LET rows == Matching(db, q)
        n == Cardinality(rows)
    IN {s \in [1..n -> rows] :
          /\ \A i, j \in 1..n : i # j => s[i] # s[j]
          /\ \A i, j \in 1..n : i < j => InOrder(s[i].date, s[j].date, q.match.ascending)}

\* The data of a response that is a list of rows.
List(rows) == [t |-> "list", v |-> rows]

\* data || []
OrEmpty(data) == IF data.t = "list" THEN data.v ELSE <<>>

getAnalyticsData(filters, answer, o) ==
    LET req == AnalyticsQuery(filters)
        done(res) ==
            [method |-> "getAnalyticsData", args |-> filters, reqs |-> <<req>>,
             settled |-> "resolved", res |-> res]
    IN IF o = "throw"
       THEN done([success |-> FALSE, data |-> <<>>,
                  error |-> Str("Failed to fetch analytics data")])
       ELSE IF o = "error"
       THEN done([success |-> FALSE, data |-> <<>>, error |-> BackendMessage])
       ELSE done([success |-> TRUE, data |-> OrEmpty(answer), error |-> Null])

\* setAnalytics(result?.data || []) on success; the list is kept otherwise
LoadedList(prev, d) ==
    IF d.settled = "resolved" /\ d.res.success THEN d.res.data ELSE prev

\* setError(null) on success, setError(result?.error || fallback) on failure,
\* setError(thrown) when the service call rejects
LoadedError(d, fallback, thrown) ==
    IF d.settled # "resolved" THEN Str(thrown)
    ELSE IF d.res.success THEN Null
    ELSE OrElse(d.res.error, Str(fallback))

\* The filters loadAnalytics is called with.
AnalyticsFilters ==
    {[dateFrom |-> f, dateTo |-> t] :
        f \in {Undef, Str(""), Date(2)}, t \in {Undef, Date(2)}}

Without(seq, k) == [i \in 1..(Len(seq) - 1) |-> IF i < k THEN seq[i] ELSE seq[i + 1]]

InitAnalytics ==
    /\ user = "u1"
    /\ tradesDb = {}
    /\ call = NoCall
    /\ analyticsDb \in AnalyticsTables
    /\ HookIdle
    /\ BrokerIdle

\* loadAnalytics(filters) up to its await
LoadAnalytics(filters) ==
    /\ Len(pending) < MaxInFlight
    /\ loading' = [loading EXCEPT !.analytics = TRUE]
    /\ pending' = Append(pending, [action |-> "loadAnalytics", filters |-> filters])
    /\ UNCHANGED <<brokerVars, user, tradesDb, call, analyticsDb, trades, accounts, analytics,
                   hookError, channels, view, stats>>

\* The request of pending[k] is answered and loadAnalytics runs to its end.
SettleAnalytics(k, answer, o) ==
    /\ pending[k].action = "loadAnalytics"
    /\ LET d == getAnalyticsData(pending[k].filters, answer, o)
       IN /\ call' = d @@ [db |-> analyticsDb]
          /\ analytics' = LoadedList(analytics, d)
          /\ hookError' = LoadedError(d, "Failed to load analytics",
                                      "Failed to load analytics")
    /\ loading' = [loading EXCEPT !.analytics = FALSE]
    /\ pending' = Without(pending, k)
    /\ UNCHANGED <<brokerVars, user, tradesDb, analyticsDb, trades, accounts, channels,
                   view, stats>>

NextAnalytics ==
    \/ \E f \in AnalyticsFilters : LoadAnalytics(f)
    \/ \E k \in 1..Len(pending), o \in Outcomes :
          \E answer \in PgAnswers(analyticsDb, AnalyticsQuery(pending[k].filters)) :
             SettleAnalytics(k, List(answer), o)

SpecAnalytics == InitAnalytics /\ [][NextAnalytics]_vars

-----------------------------------------------------------------------------
(* TradingService.getTrades and getTradingAccounts *)

\* from('trades').select(...) [.eq('status', status)].range(offset, offset + limit - 1)
\*   .order('opened_at', { ascending: false })
\* The view leaves the symbol and date filters empty, so they are not applied.
TradesQuery(filters) ==
    LET limit == IF filters.limit # 0 THEN filters.limit ELSE DefaultLimit
        offset == filters.offset
    IN Request("select", "trades",
               [status |-> IF Truthy(filters.status) THEN {filters.status.v} ELSE {},
                from |-> offset, to |-> offset + limit - 1, ascending |-> FALSE],
               Null)

\* The list the backend answers the query with. Trades are opened in the
\* order of their ids, so the newest first is the highest id first.
PgTradeAnswer(db, q) ==
    LET rows == {r \in db : \A st \in q.match.status : r.status = st}
        n == Cardinality(rows)
        sorted == CHOOSE s \in [1..n -> rows] :
                     \A i, j \in 1..n : i < j => s[i].id > s[j].id
        last == IF q.match.to + 1 < n THEN q.match.to + 1 ELSE n
    IN SubSeq(sorted, q.match.from + 1, last)

getTrades(filters, answer, o) ==
    LET req == TradesQuery(filters)
        done(res) ==
            [method |-> "getTrades", args |-> filters, reqs |-> <<req>>,
             settled |-> "resolved", res |-> res]
    IN IF o = "throw"
       THEN done([success |-> FALSE, data |-> <<>>, error |-> Str("Failed to fetch trades")])
       ELSE IF o = "error"
       THEN done([success |-> FALSE, data |-> <<>>, error |-> BackendMessage])
       ELSE done([success |-> TRUE, data |-> OrEmpty(answer), error |-> Null])

getTradingAccounts(answer, o) ==
    LET req == Request("select", "trading_accounts",
                       [is_active |-> TRUE, ascending |-> FALSE], Null)
        done(res) ==
            [method |-> "getTradingAccounts", args |-> Null, reqs |-> <<req>>,
             settled |-> "resolved", res |-> res]
    IN IF o = "throw"
       THEN done([success |-> FALSE, data |-> <<>>,
                  error |-> Str("Failed to fetch trading accounts")])
       ELSE IF o = "error"
       THEN done([success |-> FALSE, data |-> <<>>, error |-> BackendMessage])
       ELSE done([success |-> TRUE, data |-> OrEmpty(answer), error |-> Null])

-----------------------------------------------------------------------------
(* useTrading.loadTrades and loadAccounts, driven by the effects of the      *)
(* trade-management view                                                    *)

MaxInvocations == 4     \* invocations of load actions in one behaviour

\* The tables trades can be: rows that are open, or closed at a price and time.
TradeTables ==
    UNION {{{IF f[i] = "open" THEN TradeRow(i, "open", NoPrice, NoTime)
                              ELSE TradeRow(i, "closed", 10, 1) : i \in S} :
            f \in [S -> {"open", "closed"}]} : S \in SUBSET TradeIds}

\* The lists of active trading accounts the backend may hold.
AccountLists == {<<>>, <<[id |-> 1, is_active |-> TRUE]>>}

\* The filters the filter bar can set.
FilterChoices == {[status |-> Str("")], [status |-> Str("closed")]}

\* The part of the state an invocation of a load action touches.
Loads == [pending |-> pending, loading |-> loading, stats |-> stats]

\* A load action up to its await: setLoading(prev => ({...prev, [key]: true}))
\* and the one service call, which is then in flight.
Invoked(h, action, key, filters) ==
    [pending |-> Append(h.pending, [action |-> action, filters |-> filters]),
     loading |-> [h.loading EXCEPT ![key] = TRUE],
     stats |-> [h.stats EXCEPT !.invoked = @ + 1, !.issued = @ + 1]]

\* The load effect: if (user) { loadTrades(filters); loadAccounts(); }
InitialLoadEffect(h, usr, filters) ==
    IF usr = NoUser THEN h
    ELSE Invoked(Invoked(h, "loadTrades", "trades", filters),
                 "loadAccounts", "accounts", Null)

\* The filter effect: if (user) { loadTrades(filters); }
FilterEffect(h, usr, filters) ==
    IF usr = NoUser THEN h ELSE Invoked(h, "loadTrades", "trades", filters)

\* A load action whose request failed issues the request again
SettledWithRetry(h, k, key, d) ==
    IF d.settled = "resolved" /\ d.res.success
    THEN [pending |-> Without(h.pending, k),
          loading |-> [h.loading EXCEPT ![key] = FALSE],
          stats |-> h.stats]
    ELSE [pending |-> Append(Without(h.pending, k), h.pending[k]),
          loading |-> h.loading,
          stats |-> [h.stats EXCEPT !.issued = @ + 1]]

\* A load action after its await: the request of pending[k] has settled with d;
\* whatever d is, no request is issued and finally the flag is cleared.
Settled(h, k, key, d) ==
    [pending |-> Without(h.pending, k),
     loading |-> [h.loading EXCEPT ![key] = FALSE],
     stats |-> IF d.settled = "resolved" /\ d.res.success THEN h.stats
               ELSE [h.stats EXCEPT !.failed = @ + 1]]

\* supabase.channel(name).on(...).subscribe()
Subscribed(ch, name) == [ch EXCEPT ![name] = "subscribed"]

InitView ==
    /\ user \in {NoUser, "u1"}
    /\ tradesDb \in TradeTables
    /\ analyticsDb = {}
    /\ call = NoCall
    /\ HookIdle
    /\ BrokerIdle

\* The first render of the view: the subscription effect of the hook, then
\* the two effects of the view, in the order they are declared.
Mount ==
    /\ view.state = "unmounted"
    /\ stats.invoked + 3 <= MaxInvocations
    /\ view' = [view EXCEPT !.state = "mounted"]
    /\ channels' = Subscribed(Subscribed(channels, "trades"), "analytics")
    /\ LET h == FilterEffect(InitialLoadEffect(Loads, user, view.filters),
                             user, view.filters)
       IN /\ pending' = h.pending
          /\ loading' = h.loading
          /\ stats' = h.stats
    /\ UNCHANGED <<brokerVars, user, tradesDb, call, analyticsDb, trades, accounts, analytics,
                   hookError>>

\* The auth context delivers another user: both effects depend on user and run again.
AuthChanged(u) ==
    /\ u # user
    /\ user' = u
    /\ stats.invoked + 3 <= MaxInvocations
    /\ LET h == IF view.state = "mounted"
                THEN FilterEffect(InitialLoadEffect(Loads, u, view.filters),
                                  u, view.filters)
                ELSE Loads
       IN /\ pending' = h.pending
          /\ loading' = h.loading
          /\ stats' = h.stats
    /\ UNCHANGED <<brokerVars, tradesDb, call, analyticsDb, trades, accounts, analytics, hookError,
                   channels, view>>

\* handleFilterChange(newFilters): setFilters(prev => ({...prev, ...newFilters,
\* offset: 0})) makes a new filters object, so the filter effect runs again.
ChangeFilters(newFilters) ==
    /\ view.state = "mounted"
    /\ stats.invoked + 1 <= MaxInvocations
    /\ LET filters == [offset |-> 0] @@ newFilters @@ view.filters
           h == FilterEffect(Loads, user, filters)
       IN /\ view' = [view EXCEPT !.filters = filters]
          /\ pending' = h.pending
          /\ loading' = h.loading
          /\ stats' = h.stats
    /\ UNCHANGED <<brokerVars, user, tradesDb, call, analyticsDb, trades, accounts, analytics,
                   hookError, channels>>

\* The request of a loadTrades settles and loadTrades runs to its end.
SettleTrades(k, o) ==
    /\ pending[k].action = "loadTrades"
    /\ LET q == TradesQuery(pending[k].filters)
           d == getTrades(pending[k].filters, List(PgTradeAnswer(tradesDb, q)), o)
           h == Settled(Loads, k, "trades", d)
       IN /\ call' = d
          /\ trades' = LoadedList(trades, d)
          /\ hookError' = LoadedError(d, "Failed to load trades", "Failed to load trades")
          /\ pending' = h.pending
          /\ loading' = h.loading
          /\ stats' = h.stats
    /\ UNCHANGED <<brokerVars, user, tradesDb, analyticsDb, accounts, analytics, channels, view>>

\* The request of a loadAccounts settles and loadAccounts runs to its end.
SettleAccounts(k, answer, o) ==
    /\ pending[k].action = "loadAccounts"
    /\ LET d == getTradingAccounts(List(answer), o)
           h == Settled(Loads, k, "accounts", d)
       IN /\ call' = d
          /\ accounts' = LoadedList(accounts, d)
          /\ hookError' = LoadedError(d, "Failed to load accounts",
                                      "Failed to load trading accounts")
          /\ pending' = h.pending
          /\ loading' = h.loading
          /\ stats' = h.stats
    /\ UNCHANGED <<brokerVars, user, tradesDb, analyticsDb, trades, analytics, channels, view>>

\* A cleanup that unsubscribes the trades channel only
UnsubscribedTradesOnly(ch, name) ==
    IF name = "trades" /\ ch[name] = "subscribed"
    THEN [ch EXCEPT ![name] = "removed"] ELSE ch

\* TradingService.unsubscribe(channel) of a channel the effect holds
Unsubscribed(ch, name) ==
    IF ch[name] = "subscribed" THEN [ch EXCEPT ![name] = "removed"] ELSE ch

CountUnsubscribed(st, ch, name) ==
    IF ch[name] = "subscribed" THEN [st EXCEPT !.unsubscribed[name] = @ + 1] ELSE st

\* The cleanup of the subscription effect when the view is torn down.
Teardown ==
    /\ view.state = "mounted"
    /\ view' = [view EXCEPT !.state = "torndown"]
    /\ channels' = Unsubscribed(Unsubscribed(channels, "trades"), "analytics")
    /\ stats' = CountUnsubscribed(CountUnsubscribed(stats, channels, "trades"),
                                  channels, "analytics")
    /\ UNCHANGED <<brokerVars, user, tradesDb, call, analyticsDb, trades, accounts, analytics,
                   loading, hookError, pending>>

NextView ==
    \/ Mount
    \/ \E u \in {NoUser, "u1"} : AuthChanged(u)
    \/ \E f \in FilterChoices : ChangeFilters(f)
    \/ \E k \in 1..Len(pending), o \in Outcomes : SettleTrades(k, o)
    \/ \E k \in 1..Len(pending), a \in AccountLists, o \in Outcomes :
          SettleAccounts(k, a, o)
    \/ Teardown

SpecView == InitView /\ [][NextView]_vars

-----------------------------------------------------------------------------
(* useTrading: the realtime subscriptions and their cleanup *)

\* A change of a row as the realtime feed reports it.
Event(type, new, old) == [eventType |-> type, new |-> new, old |-> old]

RECURSIVE Replaced(_, _)
\* prev.map(item => item.id === row.id ? row : item)
Replaced(prev, row) ==
    IF prev = <<>> THEN <<>>
    ELSE <<IF Head(prev).id = row.id THEN row ELSE Head(prev)>>
         \o Replaced(Tail(prev), row)

RECURSIVE Removed(_, _)
\* prev.filter(item => item.id !== id)
Removed(prev, id) ==
    IF prev = <<>> THEN <<>>
    ELSE (IF Head(prev).id # id THEN <<Head(prev)>> ELSE <<>>) \o Removed(Tail(prev), id)

\* The callback of subscribeToTrades.
TradesHandler(prev, payload) ==
    CASE payload.eventType = "INSERT" -> <<payload.new>> \o prev
      [] payload.eventType = "UPDATE" -> Replaced(prev, payload.new)
      [] payload.eventType = "DELETE" -> Removed(prev, payload.old.id)
      [] OTHER -> prev

\* The callback of subscribeToAnalytics.
AnalyticsHandler(prev, payload) ==
    IF payload.eventType \in {"INSERT", "UPDATE"}
    THEN IF \E i \in 1..Len(prev) : prev[i].id = payload.new.id
         THEN Replaced(prev, payload.new)
         ELSE Append(prev, payload.new)
    ELSE prev

\* The realtime client calls the callback of a channel while it is subscribed
\* and no longer once removeChannel has removed it.
Delivered(ch, name) == ch[name] = "subscribed"

InitSub ==
    /\ user = NoUser
    /\ tradesDb = {}
    /\ analyticsDb = {}
    /\ call = NoCall
    /\ HookIdle
    /\ BrokerIdle

\* A row of trades is inserted, closed or deleted at the backend, by this or
\* by any other client, and the feed reports it.
TradeChanged(payload, db) ==
    /\ tradesDb' = db
    /\ trades' = IF Delivered(channels, "trades")
                 THEN TradesHandler(trades, payload) ELSE trades
    /\ UNCHANGED <<brokerVars, user, call, analyticsDb, accounts, analytics, loading, hookError,
                   pending, channels, view, stats>>

TradeInserted(i) ==
    /\ ~HasRow(tradesDb, i)
    /\ LET new == TradeRow(i, "open", NoPrice, NoTime)
       IN TradeChanged(Event("INSERT", new, Null), tradesDb \cup {new})

TradeUpdated(i, px, ct) ==
    /\ HasRow(tradesDb, i)
    /\ LET old == RowOf(tradesDb, i)
           new == TradeRow(i, "closed", px, ct)
       IN /\ new # old
          /\ TradeChanged(Event("UPDATE", new, old), (tradesDb \ {old}) \cup {new})

TradeDeleted(i) ==
    /\ HasRow(tradesDb, i)
    /\ LET old == RowOf(tradesDb, i)
       IN TradeChanged(Event("DELETE", Null, old), tradesDb \ {old})

\* A row of analytics_data is inserted or recomputed at the backend.
AnalyticsChanged(i, d) ==
    LET old == {r \in analyticsDb : r.id = i}
        new == AnalyticsRow(i, d)
    IN /\ new \notin analyticsDb
       /\ analyticsDb' = (analyticsDb \ old) \cup {new}
       /\ analytics' = IF Delivered(channels, "analytics")
                        THEN AnalyticsHandler(analytics,
                                 Event(IF old = {} THEN "INSERT" ELSE "UPDATE", new, Null))
                        ELSE analytics
       /\ UNCHANGED <<brokerVars, user, tradesDb, call, trades, accounts, loading, hookError,
                      pending, channels, view, stats>>

NextSub ==
    \/ Mount
    \/ Teardown
    \/ \E i \in TradeIds : TradeInserted(i)
    \/ \E i \in TradeIds, px \in Prices : TradeUpdated(i, px, 1)
    \/ \E i \in TradeIds : TradeDeleted(i)
    \/ \E i \in AnalyticsIds, d \in {1, 2} : AnalyticsChanged(i, d)

SpecSub == InitSub /\ [][NextSub]_vars

-----------------------------------------------------------------------------
(* BrokerCredentialService: encrypt, decrypt and the brokers table *)

ENCRYPTION_KEY == "default-encryption-key-change-me"

CredentialFields ==
    {"apiKey", "apiSecret", "userId", "password", "totpKey", "serverAddress"}

\* JSON.stringify(data): the text of an object holds its properties whose
\* value is not undefined.
Stringify(data) ==
    [t |-> "json", v |-> [k \in {f \in DOMAIN data : data[f] # Undef} |-> data[k]]]

\* JSON.parse(text): the object of a JSON text, an exception on any other text
Parse(text) ==
    IF text.t = "json" THEN [threw |-> FALSE, value |-> text.v] ELSE [threw |-> TRUE]

\* CryptoJS.AES.encrypt(text, key).toString()
AESEncrypt(text, key) == [t |-> "cipher", key |-> key, text |-> text]

\* CryptoJS.AES.decrypt(cipher, key).toString(CryptoJS.enc.Utf8): the text
\* under the key that encrypted it, bytes that are no text under another key
AESDecrypt(cipher, key) ==
    IF cipher.key = key THEN cipher.text ELSE [t |-> "malformed"]

encrypt(data) == AESEncrypt(Stringify(data), ENCRYPTION_KEY)

\* Returns the object, or throws 'Failed to decrypt credentials'.
decrypt(encryptedData) == Parse(AESDecrypt(encryptedData, ENCRYPTION_KEY))

\* The credentials kept as they were passed in
AsPassed(x) == x

\* x || null
OrNull(x) == OrElse(x, Null)

\* The object storeBrokerCredentials encrypts.
Credentials(brokerData) == [f \in CredentialFields |-> OrNull(brokerData[f])]

\* A request together with the way it ended.
Asked(req, o) == req @@ [outcome |-> o]

BrokerRow(id, name, apiKey, status, uid, syncedAt) ==
    [id |-> id, name |-> name, api_key |-> apiKey, api_secret |-> Null,
     account_id |-> Null, status |-> status, user_profile_id |-> uid,
     last_sync_at |-> syncedAt]

FreeBrokerIds(db) == {i \in BrokerIds : \A r \in db : r.id # i}
NextBrokerId(db) == CHOOSE i \in FreeBrokerIds(db) : \A j \in FreeBrokerIds(db) : i <= j

\* from('brokers').insert(payload).select().single()
PgInsertBroker(db, payload, o) ==
    IF o = "throw" THEN [threw |-> TRUE, db |-> db]
    ELSE IF o = "error"
         THEN [threw |-> FALSE, failed |-> TRUE, message |-> BackendMessage, db |-> db]
         ELSE LET new == [id |-> NextBrokerId(db), last_sync_at |-> Null] @@ payload
              IN [threw |-> FALSE, failed |-> FALSE, data |-> new, db |-> db \cup {new}]

\* The rows .eq('id', brokerId).eq('user_profile_id', uid) selects.
OwnRows(db, brokerId, uid) ==
    {r \in db : r.id = brokerId /\ r.user_profile_id = uid}

\* from('brokers').select('*').eq(...).eq(...).single(): no row is an error.
PgSelectBroker(db, brokerId, uid, o) ==
    IF o = "throw" THEN [threw |-> TRUE]
    ELSE IF o = "error" \/ OwnRows(db, brokerId, uid) = {}
         THEN [threw |-> FALSE, failed |-> TRUE, message |-> BackendMessage]
         ELSE [threw |-> FALSE, failed |-> FALSE,
               data |-> CHOOSE r \in OwnRows(db, brokerId, uid) : TRUE]

\* from('brokers').update(patch).eq(...).eq(...).select().single()
PgUpdateBroker(db, brokerId, uid, patch, o) ==
    IF o = "throw" THEN [threw |-> TRUE, db |-> db]
    ELSE IF o = "error" \/ OwnRows(db, brokerId, uid) = {}
         THEN [threw |-> FALSE, failed |-> TRUE, message |-> BackendMessage, db |-> db]
         ELSE LET old == CHOOSE r \in OwnRows(db, brokerId, uid) : TRUE
                  new == [k \in DOMAIN old |-> IF k \in DOMAIN patch THEN patch[k] ELSE old[k]]
              IN [threw |-> FALSE, failed |-> FALSE, data |-> new,
                  db |-> (db \ {old}) \cup {new}]

storeBrokerCredentials(db, usr, brokerData, oUser, oInsert) ==
    LET u == AuthGetUser(usr, oUser)
        asked == <<Asked(GetUserRequest, oUser)>>
        fail(reqs, msg) ==
            Done("storeBrokerCredentials", brokerData, reqs, "resolved",
                 [success |-> FALSE, error |-> msg], db)
    IN IF u.threw THEN fail(asked, Str("Failed to store broker credentials"))
       ELSE IF u.failed \/ u.user = NoUser THEN fail(asked, Str("User not authenticated"))
       ELSE LET payload == [name |-> brokerData.name,
                            api_key |-> encrypt(Credentials(brokerData)),
                            api_secret |-> Null,
                            account_id |-> OrNull(brokerData.accountId),
                            status |-> "inactive",
                            user_profile_id |-> u.user]
                reqs == Append(asked,
                               Asked(Request("insert", "brokers", Null, payload), oInsert))
                r == PgInsertBroker(db, payload, oInsert)
            IN IF r.threw THEN fail(reqs, Str("Failed to store broker credentials"))
               ELSE IF r.failed THEN fail(reqs, r.message)
               ELSE Done("storeBrokerCredentials", brokerData, reqs, "resolved",
                         [success |-> TRUE, data |-> r.data, error |-> Null], r.db)

getBrokerCredentials(db, usr, brokerId, oUser, oSelect) ==
    LET u == AuthGetUser(usr, oUser)
        asked == <<Asked(GetUserRequest, oUser)>>
        fail(reqs, msg) ==
            Done("getBrokerCredentials", brokerId, reqs, "resolved",
                 [success |-> FALSE, error |-> msg], db)
        caught == Str("Failed to retrieve credentials")
    IN IF u.threw THEN fail(asked, caught)
       ELSE IF u.failed \/ u.user = NoUser THEN fail(asked, Str("User not authenticated"))
       ELSE LET match == [id |-> brokerId, user_profile_id |-> u.user]
                reqs == Append(asked,
                               Asked(Request("select", "brokers", match, Null), oSelect))
                r == PgSelectBroker(db, brokerId, u.user, oSelect)
            IN IF r.threw THEN fail(reqs, caught)
               ELSE IF r.failed THEN fail(reqs, r.message)
               ELSE IF r.data.api_key = Null THEN fail(reqs, Str("No credentials found"))
               ELSE LET decryptedCredentials == decrypt(r.data.api_key)
                    IN IF decryptedCredentials.threw THEN fail(reqs, caught)
                       ELSE Done("getBrokerCredentials", brokerId, reqs, "resolved",
                                 [success |-> TRUE,
                                  data |-> [credentials |-> decryptedCredentials.value]
                                           @@ r.data,
                                  error |-> Null], db)

updateBrokerCredentials(db, usr, brokerId, newCredentials, now, oUser, oUpdate) ==
    LET u == AuthGetUser(usr, oUser)
        asked == <<Asked(GetUserRequest, oUser)>>
        args == [brokerId |-> brokerId, newCredentials |-> newCredentials]
        fail(reqs, msg) ==
            Done("updateBrokerCredentials", args, reqs, "resolved",
                 [success |-> FALSE, error |-> msg], db)
    IN IF u.threw THEN fail(asked, Str("Failed to update credentials"))
       ELSE IF u.failed \/ u.user = NoUser THEN fail(asked, Str("User not authenticated"))
       ELSE LET patch == [api_key |-> encrypt(newCredentials), updated_at |-> Date(now)]
                match == [id |-> brokerId, user_profile_id |-> u.user]
                reqs == Append(asked,
                               Asked(Request("update", "brokers", match, patch), oUpdate))
                r == PgUpdateBroker(db, brokerId, u.user, patch, oUpdate)
            IN IF r.threw THEN fail(reqs, Str("Failed to update credentials"))
               ELSE IF r.failed THEN fail(reqs, r.message)
               ELSE Done("updateBrokerCredentials", args, reqs, "resolved",
                         [success |-> TRUE, data |-> r.data, error |-> Null], r.db)

-----------------------------------------------------------------------------
(* Specification of the stored credentials of brokers under changing users *)

\* The broker forms the model draws from: every credential given, some given
\* and the others empty, null or absent, and none given.
BrokerData(name, given) ==
    [name |-> name, accountId |-> Undef,
     apiKey |-> IF given = "none" THEN Undef ELSE Str("key"),
     apiSecret |-> CASE given = "all" -> Str("secret")
                     [] given = "some" -> Str("")
                     [] OTHER -> Undef,
     userId |-> IF given = "all" THEN Str("uid") ELSE Undef,
     password |-> CASE given = "all" -> Str("pw")
                    [] given = "some" -> Null
                    [] OTHER -> Undef,
     totpKey |-> IF given = "all" THEN Str("totp") ELSE Undef,
     serverAddress |-> CASE given = "all" -> Str("host")
                         [] given = "some" -> Str("")
                         [] OTHER -> Undef]

BrokerInputs ==
    {BrokerData(n, g) : n \in {"Zerodha", "Upstox"}, g \in {"all", "some", "none"}}

\* The objects updateBrokerCredentials is called with: the six fields, or one.
NewCredentials ==
    {[f \in CredentialFields |-> IF f = "apiKey" THEN Str("key2") ELSE Null],
     [apiKey |-> Str("key3")]}

InitBroker ==
    /\ user = NoUser
    /\ tradesDb = {}
    /\ analyticsDb = {}
    /\ call = NoCall
    /\ HookIdle
    /\ BrokerIdle

\* The table holds one row for each id of BrokerIds at most.
StoreBrokerCredentials(brokerData, oUser, oInsert) ==
    /\ FreeBrokerIds(brokersDb) # {}
    /\ LET d == storeBrokerCredentials(brokersDb, user, brokerData, oUser, oInsert)
       IN /\ brokersDb' = d.db
          /\ call' = d @@ [user |-> user]
          /\ entered' = IF d.res.success
                        THEN [entered EXCEPT ![d.res.data.id] =
                                  [by |-> "store", data |-> brokerData]]
                        ELSE entered
          /\ UNCHANGED <<user, tradesDb, accountsDb, hookVars>>

GetBrokerCredentials(brokerId, oUser, oSelect) ==
    /\ call' = getBrokerCredentials(brokersDb, user, brokerId, oUser, oSelect)
                  @@ [user |-> user]
    /\ UNCHANGED <<user, tradesDb, hookVars, brokerVars>>

UpdateBrokerCredentials(brokerId, newCredentials, now, oUser, oUpdate) ==
    LET d == updateBrokerCredentials(brokersDb, user, brokerId, newCredentials, now,
                                     oUser, oUpdate)
    IN /\ brokersDb' = d.db
       /\ call' = d @@ [user |-> user]
       /\ entered' = IF d.res.success
                     THEN [entered EXCEPT ![brokerId] =
                               [by |-> "update", data |-> newCredentials]]
                     ELSE entered
       /\ UNCHANGED <<user, tradesDb, accountsDb, hookVars>>

NextBroker ==
    \/ \E a \in Users : SignIn(a, "ok", Undef)
    \/ SignOut("ok", Undef)
    \/ \E b \in BrokerInputs, o1 \in Outcomes, o2 \in Outcomes :
          StoreBrokerCredentials(b, o1, o2)
    \/ \E i \in BrokerIds, o1 \in Outcomes, o2 \in Outcomes :
          GetBrokerCredentials(i, o1, o2)
    \/ \E i \in BrokerIds, c \in NewCredentials, o1 \in Outcomes, o2 \in Outcomes :
          UpdateBrokerCredentials(i, c, 1, o1, o2)

SpecBroker == InitBroker /\ [][NextBroker]_vars

-----------------------------------------------------------------------------
(* BrokerCredentialService.updateBrokerStatus *)

updateBrokerStatus(db, usr, brokerId, status, now, oUser, oUpdate) ==
    LET u == AuthGetUser(usr, oUser)
        asked == <<Asked(GetUserRequest, oUser)>>
        args == [brokerId |-> brokerId, status |-> status]
        fail(reqs, msg) ==
            Done("updateBrokerStatus", args, reqs, "resolved",
                 [success |-> FALSE, error |-> msg], db)
    IN IF u.threw THEN fail(asked, Str("Failed to update broker status"))
       ELSE IF u.failed \/ u.user = NoUser THEN fail(asked, Str("User not authenticated"))
       ELSE LET patch == [status |-> status,
                          last_sync_at |-> IF status = "active" THEN Date(now) ELSE Null,
                          updated_at |-> Date(now)]
                match == [id |-> brokerId, user_profile_id |-> u.user]
                reqs == Append(asked,
                               Asked(Request("update", "brokers", match, patch), oUpdate))
                r == PgUpdateBroker(db, brokerId, u.user, patch, oUpdate)
            IN IF r.threw THEN fail(reqs, Str("Failed to update broker status"))
               ELSE IF r.failed THEN fail(reqs, r.message)
               ELSE Done("updateBrokerStatus", args, reqs, "resolved",
                         [success |-> TRUE, data |-> r.data, error |-> Null], r.db)

-----------------------------------------------------------------------------
(* TradingService.getBrokers, the broker sync functions and syncFromBrokers *)

BrokerNames == {"Upstox", "Zerodha", "Interactive Brokers", "Alpaca", "MetaTrader 5"}

\* name.toLowerCase()
ToLowerCase(name) ==
    CASE name = "Upstox" -> "upstox"
      [] name = "Zerodha" -> "zerodha"
      [] name = "Interactive Brokers" -> "interactive brokers"
      [] name = "Alpaca" -> "alpaca"
      [] name = "MetaTrader 5" -> "metatrader 5"
      [] name = "Groww" -> "groww"
      [] OTHER -> name

RECURSIVE NewestFirst(_)
\* .order('created_at', { ascending: false }): ids grow with the time of creation
NewestFirst(db) ==
    IF db = {} THEN <<>>
    ELSE LET r == CHOOSE r \in db : \A q \in db : q.id <= r.id
         IN <<r>> \o NewestFirst(db \ {r})

getBrokers(db, o) ==
    LET reqs == <<Asked(Request("select", "brokers", Null, Null), o)>>
    IN CASE o = "throw" ->
              [reqs |-> reqs,
               res |-> [success |-> FALSE, data |-> <<>>,
                        error |-> Str("Failed to fetch brokers")]]
         [] o = "error" ->
              [reqs |-> reqs,
               res |-> [success |-> FALSE, data |-> <<>>, error |-> BackendMessage]]
         [] OTHER ->
              [reqs |-> reqs,
               res |-> [success |-> TRUE, data |-> NewestFirst(db), error |-> Null]]

\* fetch(url, { headers }): the response is ok ("ok"), is not ok ("error"), or
\* the fetch or the reading of its body raises an exception ("throw").
Fetch(url, o) == Asked(Request("fetch", url, Null, Null), o)

\* The result of a broker sync function that reports one imported trade
OneImported == [success |-> TRUE, data |-> [importedCount |-> 1], error |-> Null]

\* The result of a broker sync function that imported nothing.
NothingImported == [success |-> TRUE, data |-> [importedCount |-> 0], error |-> Null]

syncZerodhaData(db, usr, brokerId, a) ==
    LET c == getBrokerCredentials(db, usr, brokerId, a.user, a.select)
        reqs == Append(c.reqs, Fetch("https://api.kite.trade/portfolio/positions", a.fetch))
    IN IF ~c.res.success THEN [reqs |-> c.reqs, res |-> c.res]
       ELSE CASE a.fetch = "throw" ->
                   [reqs |-> reqs,
                    res |-> [success |-> FALSE, data |-> Null,
                             error |-> Str("Failed to sync Zerodha data")]]
              [] a.fetch = "error" ->
                   [reqs |-> reqs,
                    res |-> [success |-> FALSE, error |-> Str("Failed to fetch Zerodha data")]]
              [] OTHER -> [reqs |-> reqs, res |-> NothingImported]

syncInteractiveBrokersData(db, usr, brokerId, a) ==
    LET c == getBrokerCredentials(db, usr, brokerId, a.user, a.select)
    IN IF ~c.res.success THEN [reqs |-> c.reqs, res |-> c.res]
       ELSE [reqs |-> c.reqs, res |-> NothingImported]

syncAlpacaData(db, usr, brokerId, a) ==
    LET c == getBrokerCredentials(db, usr, brokerId, a.user, a.select)
        reqs == Append(c.reqs, Fetch("https://paper-api.alpaca.markets/v2/positions", a.fetch))
    IN IF ~c.res.success THEN [reqs |-> c.reqs, res |-> c.res]
       ELSE CASE a.fetch = "throw" ->
                   [reqs |-> reqs,
                    res |-> [success |-> FALSE, data |-> Null,
                             error |-> Str("Failed to sync Alpaca data")]]
              [] a.fetch = "error" ->
                   [reqs |-> reqs,
                    res |-> [success |-> FALSE, error |-> Str("Failed to fetch Alpaca data")]]
              [] OTHER -> [reqs |-> reqs, res |-> NothingImported]

\* UpstoxService.importTradesToDatabase(): the import writes the trades of
\* the broker account the table does not hold yet and reports their number,
\* or fails, or raises an exception.
UpstoxImport(tdb, o, ids) ==
    IF o = "throw" THEN [threw |-> TRUE, db |-> tdb]
    ELSE IF o = "error"
         THEN [threw |-> FALSE, db |-> tdb,
               res |-> [success |-> FALSE, data |-> Null,
                        error |-> Str("Failed to import trades")]]
         ELSE LET new == {i \in ids : ~HasRow(tdb, i)}
              IN [threw |-> FALSE,
                  db |-> tdb \cup {TradeRow(i, "open", NoPrice, NoTime) : i \in new},
                  res |-> [success |-> TRUE,
                           data |-> [importedCount |-> Cardinality(new)],
                           error |-> Null]]

\* The message of an exception caught in the loop of syncFromBrokers.
ThrownMessage == Str("exception")

Unsupported == [success |-> FALSE, data |-> Null, error |-> Str("Unsupported broker")]
NotSynced == [success |-> FALSE, data |-> Null, error |-> Null]

\* The body of the loop of syncFromBrokers for one active broker: acc holds
\* results, the requests issued, the trades table and the counts the Upstox
\* imports reported so far.
SyncOne(acc, broker, db, usr, a) ==
    LET lower == ToLowerCase(broker.name)
        pushed(msg) == Append(acc.errors, [name |-> broker.name, error |-> msg])
        tally(syncResult, next) ==
            IF syncResult.success
            THEN [next EXCEPT !.totalImported =
                                  acc.totalImported + syncResult.data.importedCount]
            ELSE [next EXCEPT !.errors = pushed(syncResult.error)]
        stub(slot, s) ==
            tally(s.res, [acc EXCEPT !.results[slot] = s.res,
                                     !.reqs = acc.reqs \o s.reqs])
    IN CASE lower = "upstox" ->
              IF a.connected = "throw" THEN [acc EXCEPT !.errors = pushed(ThrownMessage)]
              ELSE IF a.connected = "no"
              THEN tally(Unsupported, [acc EXCEPT !.results["upstox"] = Unsupported])
              ELSE LET imp == UpstoxImport(acc.tdb, a.import, a.rows)
                   IN IF imp.threw THEN [acc EXCEPT !.errors = pushed(ThrownMessage)]
                      ELSE tally(imp.res,
                                 [acc EXCEPT !.results["upstox"] = imp.res,
                                             !.tdb = imp.db,
                                             !.imports =
                                                 IF imp.res.success
                                                 THEN Append(acc.imports,
                                                             imp.res.data.importedCount)
                                                 ELSE acc.imports])
         [] lower \in {"zerodha kite", "zerodha"} ->
              stub("zerodha", syncZerodhaData(db, usr, broker.id, a))
         [] lower = "interactive brokers" ->
              stub("interactive", syncInteractiveBrokersData(db, usr, broker.id, a))
         [] lower \in {"alpaca markets", "alpaca"} ->
              stub("alpaca", syncAlpacaData(db, usr, broker.id, a))
         [] OTHER -> tally(Unsupported, acc)

\* One pass of the loop: the body, and the broker noted as attempted.
Attempt(acc, broker, db, usr, answers) ==
    [SyncOne(acc, broker, db, usr, answers[broker.id])
        EXCEPT !.attempted = Append(acc.attempted, broker.id)]

RECURSIVE SyncEachStopping(_, _, _, _, _)
\* A loop that ends at the first broker whose sync fails
SyncEachStopping(activeBrokers, acc, db, usr, answers) ==
    IF activeBrokers = <<>> \/ acc.errors # <<>> THEN acc
    ELSE SyncEachStopping(Tail(activeBrokers),
                          Attempt(acc, Head(activeBrokers), db, usr, answers),
                          db, usr, answers)

RECURSIVE SyncEach(_, _, _, _, _)
\* for (const broker of activeBrokers) { ... }
SyncEach(activeBrokers, acc, db, usr, answers) ==
    IF activeBrokers = <<>> THEN acc
    ELSE SyncEach(Tail(activeBrokers),
                  Attempt(acc, Head(activeBrokers), db, usr, answers),
                  db, usr, answers)

\* from('brokers').update({ last_sync_at }).eq('status', 'active')
PgStampActive(db, now, o) ==
    IF o = "ok"
    THEN {IF r.status = "active" THEN [r EXCEPT !.last_sync_at = Date(now)] ELSE r : r \in db}
    ELSE db

\* errors.join('; ')
Joined(errors) == [t |-> "joined", parts |-> errors]

syncFromBrokers(db, tdb, usr, now, oBrokers, answers, oStamp) ==
    LET brokersResult == getBrokers(db, oBrokers)
        done(reqs, res, db2, tdb2, acc) ==
            [method |-> "syncFromBrokers", args |-> Null, reqs |-> reqs,
             settled |-> "resolved", res |-> res, db |-> db2, tdb |-> tdb2,
             imports |-> acc.imports, attempted |-> acc.attempted]
    IN IF ~brokersResult.res.success
       THEN done(brokersResult.reqs,
                 [success |-> FALSE, data |-> Null, error |-> Str("Failed to get brokers")],
                 db, tdb, [imports |-> <<>>, attempted |-> <<>>])
       ELSE LET activeBrokers ==
                    SelectSeq(brokersResult.res.data, LAMBDA b : b.status = "active")
                start == [results |-> [upstox |-> NotSynced, zerodha |-> NotSynced,
                                       interactive |-> NotSynced, alpaca |-> NotSynced],
                          totalImported |-> 0, errors |-> <<>>,
                          reqs |-> brokersResult.reqs, tdb |-> tdb, imports |-> <<>>,
                          attempted |-> <<>>]
                acc == SyncEach(activeBrokers, start, db, usr, answers)
                stamp == Asked(Request("update", "brokers", [status |-> "active"],
                                       [last_sync_at |-> Date(now)]), oStamp)
                reqs == Append(acc.reqs, stamp)
            IN IF oStamp = "throw"
               THEN done(reqs,
                         [success |-> FALSE, data |-> Null,
                          error |-> Str("Failed to sync broker data")],
                         db, acc.tdb, acc)
               ELSE done(reqs,
                         [success |-> acc.totalImported > 0 \/ acc.errors = <<>>,
                          data |-> [totalImported |-> acc.totalImported,
                                    brokerResults |->
                                        acc.results @@
                                        [totalImported |-> acc.totalImported,
                                         errors |-> acc.errors]],
                          error |-> IF acc.errors # <<>> THEN Joined(acc.errors) ELSE Null],
                         PgStampActive(db, now, oStamp), acc.tdb, acc)

-----------------------------------------------------------------------------
(* Specification of syncFromBrokers over the brokers of one user *)

\* How the requests made for one active broker end: those of a broker whose
\* sync reads the stored credentials and then calls the broker's API, and
\* those of Upstox, whose service answers whether it is connected and imports.
StoredAnswers ==
    {[user |-> u, select |-> "ok", fetch |-> "ok"] : u \in {"error", "throw"}}
    \cup {[user |-> "ok", select |-> o, fetch |-> "ok"] : o \in {"error", "throw"}}
    \cup {[user |-> "ok", select |-> "ok", fetch |-> f] : f \in Outcomes}

UpstoxAnswers ==
    {[connected |-> c, import |-> "ok", rows |-> {}] : c \in {"no", "throw"}}
    \cup {[connected |-> "yes", import |-> o, rows |-> {}] : o \in {"error", "throw"}}
    \cup {[connected |-> "yes", import |-> "ok", rows |-> ids] : ids \in SUBSET TradeIds}

NoAnswer == [user |-> "ok", select |-> "ok", fetch |-> "ok"]

AnswersFor(db, i) ==
    LET rows == {r \in db : r.id = i /\ r.status = "active"}
    IN IF rows = {} THEN {NoAnswer}
       ELSE IF \E r \in rows : ToLowerCase(r.name) = "upstox" THEN UpstoxAnswers
       ELSE IF \E r \in rows : ToLowerCase(r.name) \in {"zerodha", "alpaca"}
       THEN StoredAnswers
       ELSE {a \in StoredAnswers : a.fetch = "ok"}

SyncAnswers(db) ==
    {answers \in [BrokerIds -> StoredAnswers \cup UpstoxAnswers] :
        \A i \in BrokerIds : answers[i] \in AnswersFor(db, i)}

\* The brokers one user has connected, each stored with a full set of
\* credentials and not yet verified.
StoredBroker(i, name) ==
    BrokerRow(i, name, encrypt(Credentials(BrokerData(name, "all"))), "inactive", "u1", Null)

BrokerTables ==
    {{StoredBroker(i, names[i]) : i \in S} :
        S \in SUBSET BrokerIds, names \in [BrokerIds -> BrokerNames]}

InitSync ==
    /\ user = "u1"
    /\ tradesDb = {}
    /\ analyticsDb = {}
    /\ call = NoCall
    /\ HookIdle
    /\ brokersDb \in BrokerTables
    /\ entered = NoneEntered
    /\ accountsDb = {}

UpdateBrokerStatus(brokerId, status, now, oUser, oUpdate) ==
    LET d == updateBrokerStatus(brokersDb, user, brokerId, status, now, oUser, oUpdate)
    IN /\ brokersDb' = d.db
       /\ call' = d @@ [tdb |-> tradesDb, before |-> tradesDb]
       /\ UNCHANGED <<user, tradesDb, entered, accountsDb, hookVars>>

SyncFromBrokers(now, oBrokers, answers, oStamp) ==
    LET d == syncFromBrokers(brokersDb, tradesDb, user, now, oBrokers, answers, oStamp)
    IN /\ brokersDb' = d.db
       /\ tradesDb' = d.tdb
       /\ call' = d @@ [before |-> tradesDb]
       /\ UNCHANGED <<user, entered, accountsDb, hookVars>>

\* A trade is deleted, which makes room for the next import.
DeleteImported(i, o) ==
    /\ HasRow(tradesDb, i)
    /\ LET d == deleteTrade(tradesDb, i, o)
       IN /\ tradesDb' = d.db
          /\ call' = [method |-> d.method, args |-> d.args,
                      reqs |-> <<Asked(d.reqs[1], o)>>, settled |-> d.settled,
                      res |-> d.res, db |-> brokersDb, tdb |-> d.db, before |-> tradesDb]
          /\ UNCHANGED <<user, hookVars, brokerVars>>

\* The ways the requests of one syncFromBrokers end: when the list of brokers
\* cannot be read no later request is made.
SyncInputs(db) ==
    {[brokers |-> o, answers |-> [i \in BrokerIds |-> NoAnswer], stamp |-> "ok"] :
        o \in {"error", "throw"}}
    \cup {[brokers |-> "ok", answers |-> a, stamp |-> o] :
            a \in SyncAnswers(db), o \in Outcomes}

NextSync ==
    \/ \E i \in BrokerIds, st \in {"active", "inactive"}, o1 \in Outcomes, o2 \in Outcomes :
          UpdateBrokerStatus(i, st, 2, o1, o2)
    \/ \E in \in SyncInputs(brokersDb) :
          SyncFromBrokers(2, in.brokers, in.answers, in.stamp)
    \/ \E i \in TradeIds : DeleteImported(i, "ok")

SpecSync == InitSync /\ [][NextSync]_vars

-----------------------------------------------------------------------------
(* BrokerCredentialService.testBrokerConnection and deleteBrokerCredentials, *)
(* TradingService.createTradingAccountFromBroker and addBroker              *)

Connected == [success |-> TRUE, data |-> [status |-> "connected"], error |-> Null]

\* testZerodhaConnection, testUpstoxConnection, testAlpacaConnection: one
\* fetch of the broker's API with the stored credentials.
TestedByFetch(reqs, url, label, o) ==
    LET asked == Append(reqs, Fetch(url, o))
    IN CASE o = "throw" ->
              [reqs |-> asked,
               res |-> [success |-> FALSE,
                        error |-> Str("Failed to connect to " \o label \o " API")]]
         [] o = "error" ->
              [reqs |-> asked,
               res |-> [success |-> FALSE,
                        error |-> Str("Invalid " \o label \o " credentials")]]
         [] OTHER -> [reqs |-> asked, res |-> Connected]

\* A testBrokerConnection that calls the broker's API whatever
\* getBrokerCredentials returned
testBrokerConnectionUnchecked(db, usr, brokerId, a) ==
    LET c == getBrokerCredentials(db, usr, brokerId, a.user, a.select)
    IN TestedByFetch(c.reqs, "https://api.kite.trade/user/profile", "Zerodha", a.fetch)

testBrokerConnection(db, usr, brokerId, a) ==
    LET c == getBrokerCredentials(db, usr, brokerId, a.user, a.select)
    IN IF ~c.res.success THEN [reqs |-> c.reqs, res |-> c.res]
       ELSE LET lower == ToLowerCase(c.res.data.name)
            IN CASE lower \in {"zerodha kite", "zerodha"} ->
                      TestedByFetch(c.reqs, "https://api.kite.trade/user/profile",
                                    "Zerodha", a.fetch)
                 [] lower = "upstox" ->
                      TestedByFetch(c.reqs, "https://api.upstox.com/v2/user/profile",
                                    "Upstox", a.fetch)
                 [] lower \in {"alpaca markets", "alpaca"} ->
                      TestedByFetch(c.reqs, "https://paper-api.alpaca.markets/v2/account",
                                    "Alpaca", a.fetch)
                 [] lower \in {"interactive brokers", "metatrader 5", "mt5"} ->
                      [reqs |-> c.reqs, res |-> Connected]
                 [] OTHER ->
                      [reqs |-> c.reqs,
                       res |-> [success |-> FALSE, error |-> Str("Unsupported broker type")]]

\* from('brokers').delete().eq('id', brokerId).eq('user_profile_id', uid)
PgDeleteBroker(db, brokerId, uid, o) ==
    IF o = "throw" THEN [threw |-> TRUE, db |-> db]
    ELSE IF o = "error"
         THEN [threw |-> FALSE, failed |-> TRUE, message |-> BackendMessage, db |-> db]
         ELSE [threw |-> FALSE, failed |-> FALSE, db |-> db \ OwnRows(db, brokerId, uid)]

deleteBrokerCredentials(db, usr, brokerId, oUser, oDelete) ==
    LET u == AuthGetUser(usr, oUser)
        asked == <<Asked(GetUserRequest, oUser)>>
        fail(reqs, msg) ==
            Done("deleteBrokerCredentials", brokerId, reqs, "resolved",
                 [success |-> FALSE, error |-> msg], db)
    IN IF u.threw THEN fail(asked, Str("Failed to delete broker credentials"))
       ELSE IF u.failed \/ u.user = NoUser THEN fail(asked, Str("User not authenticated"))
       ELSE LET match == [id |-> brokerId, user_profile_id |-> u.user]
                reqs == Append(asked,
                               Asked(Request("delete", "brokers", match, Null), oDelete))
                r == PgDeleteBroker(db, brokerId, u.user, oDelete)
            IN IF r.threw THEN fail(reqs, Str("Failed to delete broker credentials"))
               ELSE IF r.failed THEN fail(reqs, r.message)
               ELSE Done("deleteBrokerCredentials", brokerId, reqs, "resolved",
                         [success |-> TRUE, error |-> Null], r.db)

\* from('trading_accounts').insert(payload).select().single()
PgInsertAccount(adb, payload, o) ==
    IF o = "throw" THEN [threw |-> TRUE, db |-> adb]
    ELSE IF o = "error"
         THEN [threw |-> FALSE, failed |-> TRUE, message |-> BackendMessage, db |-> adb]
         ELSE LET new == [id |-> Cardinality(adb) + 1] @@ payload
              IN [threw |-> FALSE, failed |-> FALSE, data |-> new, db |-> adb \cup {new}]

createTradingAccountFromBroker(adb, usr, brokerId, brokerData, oUser, oInsert) ==
    LET u == AuthGetUser(usr, oUser)
        asked == <<Asked(GetUserRequest, oUser)>>
        fail(reqs, msg) ==
            Done("createTradingAccountFromBroker", brokerId, reqs, "resolved",
                 [success |-> FALSE, error |-> msg], adb)
    IN IF u.threw THEN fail(asked, Str("Failed to create trading account"))
       ELSE IF u.failed \/ u.user = NoUser THEN fail(asked, Str("User not authenticated"))
       ELSE LET payload == [account_name |-> brokerData.name \o " Account",
                            account_number |-> OrNull(brokerData.accountId),
                            broker_id |-> brokerId,
                            balance |-> 0,
                            currency |-> "USD",
                            is_active |-> TRUE,
                            user_profile_id |-> u.user]
                reqs == Append(asked,
                               Asked(Request("insert", "trading_accounts", Null, payload),
                                     oInsert))
                r == PgInsertAccount(adb, payload, oInsert)
            IN IF r.threw THEN fail(reqs, Str("Failed to create trading account"))
               ELSE IF r.failed THEN fail(reqs, r.message)
               ELSE Done("createTradingAccountFromBroker", brokerId, reqs, "resolved",
                         [success |-> TRUE, data |-> r.data, error |-> Null], r.db)

\* An addBroker that creates the trading account whatever the test says
AccountAlways(testResult) == TRUE

\* if (testResult?.success): the trading account is created
AccountWanted(testResult) == testResult.success

\* o gives the outcomes of the requests of the four steps.
addBroker(db, adb, usr, brokerData, now, o) ==
    LET result == storeBrokerCredentials(db, usr, brokerData, o.store.user, o.store.req)
        done(steps, reqs, res, db2, adb2) ==
            [method |-> "addBroker", args |-> brokerData, steps |-> steps,
             reqs |-> reqs, settled |-> "resolved", res |-> res, db |-> db2, adb |-> adb2]
    IN IF ~result.res.success
       THEN done(<<"storeBrokerCredentials">>, result.reqs, result.res, db, adb)
       ELSE LET id == result.res.data.id
                testResult == testBrokerConnection(result.db, usr, id, o.test)
                status == updateBrokerStatus(result.db, usr, id,
                                             IF testResult.res.success
                                             THEN "active" ELSE "error",
                                             now, o.status.user, o.status.req)
                account == createTradingAccountFromBroker(adb, usr, id, brokerData,
                                                          o.account.user, o.account.req)
                res == [success |-> TRUE,
                        data |-> [connectionTest |-> testResult.res] @@ result.res.data,
                        error |-> Null]
                steps == <<"storeBrokerCredentials", "testBrokerConnection",
                           "updateBrokerStatus">>
            IN IF AccountWanted(testResult.res)
               THEN done(Append(steps, "createTradingAccountFromBroker"),
                         result.reqs \o testResult.reqs \o status.reqs \o account.reqs,
                         res, status.db, account.db)
               ELSE done(steps, result.reqs \o testResult.reqs \o status.reqs,
                         res, status.db, adb)

-----------------------------------------------------------------------------
(* Specification of addBroker *)

\* How the getUser and the table request of one service method end.
StepAnswers ==
    {[user |-> u, req |-> "ok"] : u \in {"error", "throw"}}
    \cup {[user |-> "ok", req |-> o] : o \in Outcomes}

AllOk == [user |-> "ok", req |-> "ok"]

\* The outcomes of the requests of one addBroker: a step that is not reached
\* has no outcome of its own.
AddAnswers ==
    {[store |-> a, test |-> NoAnswer, status |-> AllOk, account |-> AllOk] :
        a \in StepAnswers \ {AllOk}}
    \cup {[store |-> AllOk, test |-> t, status |-> st, account |-> AllOk] :
            t \in StoredAnswers \ {NoAnswer}, st \in StepAnswers}
    \cup {[store |-> AllOk, test |-> NoAnswer, status |-> st, account |-> ac] :
            st \in StepAnswers, ac \in StepAnswers}

\* The forms addBroker is called with: a broker tested by a fetch, one that is
\* taken as connected, and one of no supported type.
AddInputs == {BrokerData(n, "all") : n \in {"Zerodha", "Interactive Brokers", "Groww"}}

InitAdd ==
    /\ user \in {NoUser, "u1"}
    /\ tradesDb = {}
    /\ analyticsDb = {}
    /\ call = NoCall
    /\ HookIdle
    /\ BrokerIdle

AddBroker(brokerData, now, o) ==
    /\ FreeBrokerIds(brokersDb) # {}
    /\ LET d == addBroker(brokersDb, accountsDb, user, brokerData, now, o)
       IN /\ brokersDb' = d.db
          /\ accountsDb' = d.adb
          /\ call' = d @@ [user |-> user, before |-> brokersDb]
          /\ UNCHANGED <<user, tradesDb, entered, hookVars>>

NextAdd ==
    \E b \in AddInputs, o \in AddAnswers : AddBroker(b, 2, o)

SpecAdd == InitAdd /\ [][NextAdd]_vars

-----------------------------------------------------------------------------
(* Specification of the brokers table with the rows of two users *)

\* Broker 1 is a row of u1 and broker 2 a row of u2, each active or not.
OwnedTables ==
    {{BrokerRow(1, "Zerodha", encrypt(Credentials(BrokerData("Zerodha", "all"))),
                s1, "u1", Null),
      BrokerRow(2, "Alpaca", encrypt(Credentials(BrokerData("Alpaca", "all"))),
                s2, "u2", Null)} :
        s1 \in {"active", "inactive"}, s2 \in {"active", "inactive"}}

InitOwn ==
    /\ user \in Users
    /\ tradesDb = {}
    /\ analyticsDb = {}
    /\ call = NoCall
    /\ HookIdle
    /\ brokersDb \in OwnedTables
    /\ entered = NoneEntered
    /\ accountsDb = {}

DeleteBrokerCredentials(brokerId, oUser, oDelete) ==
    LET d == deleteBrokerCredentials(brokersDb, user, brokerId, oUser, oDelete)
    IN /\ brokersDb' = d.db
       /\ call' = d @@ [user |-> user]
       /\ entered' = IF d.res.success THEN [entered EXCEPT ![brokerId] = Null]
                     ELSE entered
       /\ UNCHANGED <<user, tradesDb, accountsDb, hookVars>>

NextOwn ==
    \/ \E i \in BrokerIds, a \in StepAnswers :
          UpdateBrokerCredentials(i, [apiKey |-> Str("key3")], 1, a.user, a.req)
    \/ \E i \in BrokerIds, st \in {"active", "error"}, a \in StepAnswers :
          UpdateBrokerStatus(i, st, 2, a.user, a.req)
    \/ \E i \in BrokerIds, a \in StepAnswers :
          DeleteBrokerCredentials(i, a.user, a.req)
    \/ \E in \in SyncInputs(brokersDb) :
          SyncFromBrokers(2, in.brokers, in.answers, in.stamp)

SpecOwn == InitOwn /\ [][NextOwn]_vars

-----------------------------------------------------------------------------
(* Specification of BrokerCredentialService with and without a session *)

InitSession ==
    /\ user \in {NoUser, "u1"}
    /\ tradesDb = {}
    /\ analyticsDb = {}
    /\ call = NoCall
    /\ HookIdle
    /\ brokersDb \in {{}, {StoredBroker(1, "Zerodha")}}
    /\ entered = NoneEntered
    /\ accountsDb = {}

TestBrokerConnection(brokerId, a) ==
    /\ call' = testBrokerConnection(brokersDb, user, brokerId, a)
                  @@ [method |-> "testBrokerConnection", args |-> brokerId,
                      settled |-> "resolved", db |-> brokersDb, user |-> user]
    /\ UNCHANGED <<user, tradesDb, hookVars, brokerVars>>

NextSession ==
    \/ \E a \in StepAnswers :
          StoreBrokerCredentials(BrokerData("Zerodha", "all"), a.user, a.req)
    \/ \E i \in BrokerIds, a \in StepAnswers : GetBrokerCredentials(i, a.user, a.req)
    \/ \E i \in BrokerIds, a \in StepAnswers :
          UpdateBrokerCredentials(i, [apiKey |-> Str("key3")], 1, a.user, a.req)
    \/ \E i \in BrokerIds, a \in StepAnswers :
          UpdateBrokerStatus(i, "active", 2, a.user, a.req)
    \/ \E i \in BrokerIds, a \in StepAnswers : DeleteBrokerCredentials(i, a.user, a.req)
    \/ \E i \in BrokerIds, a \in StoredAnswers : TestBrokerConnection(i, a)

SpecSession == InitSession /\ [][NextSession]_vars

-----------------------------------------------------------------------------
(* useTrading.createTrade beside the realtime feed and the loads *)

\* The trades list after createTrade's await returned result:
\* setTrades(prev => [result.data, ...prev]) on success.
CreatedList(prev, result) ==
    IF result.success THEN <<result.data>> \o prev ELSE prev

\* setError(null) on success, setError(result?.error || 'Failed to create trade')
CreatedError(result) ==
    IF result.success THEN Null ELSE OrElse(result.error, Str("Failed to create trade"))

CreatesInFlight == {k \in 1..Len(pending) : pending[k].action = "createTrade"}

InitHook ==
    /\ user = "u1"
    /\ tradesDb = {}
    /\ analyticsDb = {}
    /\ call = NoCall
    /\ HookIdle
    /\ BrokerIdle

\* useTrading.createTrade up to its await: TradingService.createTrade runs at
\* the backend, where the insert of the row is reported on the realtime feed
\* at once; the response is then in flight to the hook.
CreateTradeCalled(tradeData, now, oUser, oInsert) ==
    /\ view.state = "mounted"
    /\ FreeIds(tradesDb) # {}
    /\ Cardinality(CreatesInFlight) < MaxInFlight
    /\ LET d == createTrade(tradesDb, user, tradeData, now, oUser, oInsert)
           inserted == d.db \ tradesDb
       IN /\ tradesDb' = d.db
          /\ call' = [method |-> d.method, args |-> d.args, reqs |-> d.reqs,
                      settled |-> d.settled, res |-> d.res, user |-> user,
                      answered |-> oUser]
          /\ trades' = IF inserted # {} /\ Delivered(channels, "trades")
                       THEN TradesHandler(trades,
                                Event("INSERT", CHOOSE r \in inserted : TRUE, Null))
                       ELSE trades
          /\ pending' = Append(pending, [action |-> "createTrade", filters |-> Null,
                                         result |-> d.res])
    /\ UNCHANGED <<brokerVars, user, analyticsDb, accounts, analytics, loading, hookError,
                   channels, view, stats>>

\* useTrading.createTrade after its await.
CreateTradeReturned(k) ==
    /\ pending[k].action = "createTrade"
    /\ trades' = CreatedList(trades, pending[k].result)
    /\ hookError' = CreatedError(pending[k].result)
    /\ pending' = Without(pending, k)
    /\ UNCHANGED <<brokerVars, user, tradesDb, call, analyticsDb, accounts, analytics,
                   loading, channels, view, stats>>

NextHook ==
    \/ Mount
    \/ \E k \in 1..Len(pending), o \in Outcomes : SettleTrades(k, o)
    \/ \E k \in 1..Len(pending), a \in AccountLists, o \in Outcomes :
          SettleAccounts(k, a, o)
    \/ \E o1 \in Outcomes, o2 \in Outcomes :
          CreateTradeCalled(TradeData(Str("AAPL"), Num(25), Num(105), FALSE), 1, o1, o2)
    \/ \E k \in 1..Len(pending) : CreateTradeReturned(k)
    \/ \E i \in TradeIds : TradeInserted(i)
    \/ \E i \in TradeIds, px \in Prices : TradeUpdated(i, px, 1)
    \/ \E i \in TradeIds : TradeDeleted(i)

SpecHook == InitHook /\ [][NextHook]_vars

-----------------------------------------------------------------------------
(* Claims *)

ResultKeys == {"success", "data", "error"}

\* C1: every result a service method returns, on its success path and on
\* every failure path, carries the three fields success, data and error.
C1_UniformShape ==
    call.method # "none" => ResultKeys \subseteq DOMAIN call.res

\* C9 as stated: the record createTrade or updateTrade writes equals the
\* caller's argument, and the data returned on success is the backend's
\* response with nothing defaulted, converted, added or derived.
C9_PassThrough ==
    /\ (call.method = "createTrade" /\ Len(call.reqs) = 2) =>
          call.reqs[2].payload = call.args
    /\ call.method = "updateTrade" => call.reqs[1].payload = call.args.updates
    /\ (call.method = "getPortfolioSummary" /\ call.res.success) =>
          call.res.data = call.args.portfolios

\* C9 amended: the service forwards a record derived from the argument.
\* createTrade writes the argument's fields converted and defaulted (quantity
\* through parseInt, entryPrice and exitPrice through parseFloat, process
\* 'manual', pnl 0, pnlCurrency 'INR', the current time as tradeDate, null for
\* an absent strategy, notes or exitPrice) plus the userId of the
\* authenticated user; updateTrade writes the argument plus updated_at;
\* createTrade and updateTrade return the row the backend returned, and
\* getPortfolioSummary returns the backend's portfolios with three totals the
\* client derives.
C9_DerivedRecord ==
    /\ (call.method = "createTrade" /\ Len(call.reqs) = 2) =>
          LET p == call.reqs[2].payload
              a == call.args
          IN /\ DOMAIN p = DOMAIN a \cup {"userId"}
             /\ p.userId = Str(call.user)
             /\ p.instrument = a.instrument
             /\ a.quantity = Num(25) => p.quantity = Num(20)
             /\ a.quantity = Str("3") => p.quantity = Num(30)
             /\ a.entryPrice = Num(105) => p.entryPrice = Num(105)
             /\ a.entryPrice = Str("2.5") => p.entryPrice = Num(25)
             /\ p.exitPrice = (IF a.exitPrice = Undef THEN Null ELSE Num(30))
             /\ p.tradeDate.t = "num" /\ p.tradeDate.v \in Times
             /\ p.strategy = Null
             /\ p.notes = (IF a.notes = Undef THEN Null ELSE a.notes)
             /\ p.process = (IF a.process = Undef THEN Str("manual") ELSE a.process)
             /\ p.pnl = (IF a.pnl = Undef THEN Num(0) ELSE a.pnl)
             /\ p.pnlCurrency = (IF a.pnlCurrency = Undef THEN Str("INR")
                                 ELSE a.pnlCurrency)
             /\ call.res.success =>
                   /\ \A c \in DOMAIN p : call.res.data[c] = p[c]
                   /\ \E r \in tradesDb : \A c \in DOMAIN r : call.res.data[c] = r[c]
    /\ call.method = "updateTrade" =>
          LET p == call.reqs[1].payload
              u == call.args.updates
          IN /\ DOMAIN p = DOMAIN u \cup {"updated_at"}
             /\ \A c \in DOMAIN u : p[c] = u[c]
             /\ p.updated_at \in Times
             /\ call.res.success => call.res.data \in tradesDb
    /\ (call.method = "getPortfolioSummary" /\ call.res.success) =>
          /\ DOMAIN call.res.data =
                {"portfolios", "totalBalance", "totalPnL", "totalPnLPercentage"}
          /\ call.res.data.portfolios = call.args.portfolios
          /\ call.args.accounts = <<>> => call.res.data.totalPnLPercentage = 0

\* C9 witness: createTrade has inserted a record that differs from its
\* argument in a converted field and in a defaulted field.
C9_Witness ==
    /\ call.method = "createTrade"
    /\ call.res.success
    /\ call.args.quantity = Num(25)
    /\ call.args.process = Undef
    /\ call.reqs[2].payload.quantity = Num(20)
    /\ call.reqs[2].payload.process = Str("manual")

\* C10: closeTrade, updateTrade and deleteTrade issue their request whatever
\* the status of the trade; a closeTrade the backend accepts overwrites
\* exit_price and closed_at and leaves status 'closed', also on a trade that
\* was closed already.
C10_NoLifecycleRule ==
    call.method \in {"closeTrade", "updateTrade", "deleteTrade"} =>
        /\ Len(call.reqs) = 1
        /\ call.reqs[1].table = "trades"
        /\ call.reqs[1].match = [id |-> call.args.tradeId]
        /\ (call.method = "closeTrade" /\ call.res.success) =>
              /\ call.before # {}
              /\ TradeRow(call.args.tradeId, "closed", call.args.exitPrice,
                          call.args.closedAt) \in tradesDb
              /\ call.res.data \in tradesDb
        /\ (call.method = "deleteTrade" /\ call.res.success) =>
              ~HasRow(tradesDb, call.args.tradeId)

\* C10 witness: a trade closed at one price and time has been closed again
\* at another price and time.
C10_Witness ==
    /\ call.method = "closeTrade"
    /\ call.res.success
    /\ \E r \in call.before :
          /\ r.status = "closed"
          /\ r.exit_price # call.args.exitPrice
          /\ r.exit_price # NoPrice
          /\ r.closed_at # call.args.closedAt
          /\ r.closed_at # NoTime

\* The rows of a table whose date lies within the bounds the filters give; a
\* bound that is absent or empty is not applied.
InRange(db, filters) ==
    {r \in db :
        /\ filters.dateFrom.t = "date" => r.date >= filters.dateFrom.v
        /\ filters.dateTo.t = "date" => r.date <= filters.dateTo.v}

\* C8: a getAnalyticsData that succeeds returns exactly the rows of
\* analytics_data whose date lies in [dateFrom, dateTo], each once, in
\* ascending date order, and loadAnalytics stores that list as the hook's
\* analytics state.
C8_DirectRead ==
    [][(Len(pending') < Len(pending) /\ call'.res.success) =>
          LET data == call'.res.data
          IN /\ {data[i] : i \in 1..Len(data)} = InRange(analyticsDb, call'.args)
             /\ Len(data) = Cardinality(InRange(analyticsDb, call'.args))
             /\ \A i, j \in 1..Len(data) : i < j => data[i].date <= data[j].date
             /\ analytics' = data]_vars

\* C8 witness: a load with a lower bound has stored a non-empty list
\* while the table holds a row before the lower bound.
C8_Witness ==
    /\ call.method = "getAnalyticsData"
    /\ call.res.success
    /\ call.args.dateFrom.t = "date"
    /\ analytics = call.res.data
    /\ Len(analytics) >= 1
    /\ \E r \in analyticsDb : r.date < call.args.dateFrom.v

\* C8 witness of the order: a load without bounds has stored rows of two dates.
C8_WitnessOrder ==
    /\ call.method = "getAnalyticsData"
    /\ call.res.success
    /\ call.args.dateFrom = Str("")
    /\ Len(analytics) = MaxRows
    /\ analytics[1].date < analytics[MaxRows].date
    /\ analytics[1].id > analytics[MaxRows].id

LoadTradesInFlight == {k \in 1..Len(pending) : pending[k].action = "loadTrades"}

\* C3: there is no retry. Every invocation of a load action of the hook
\* issues its service call once, every such call makes one backend request,
\* and a request that failed is not issued again: the requests issued are as
\* many as the invocations, and never more are in flight than were invoked.
C3_NoRetry ==
    /\ stats.issued = stats.invoked
    /\ Len(pending) <= stats.invoked
    /\ call.method \in {"getTrades", "getTradingAccounts"} => Len(call.reqs) = 1

\* C3 witness: the view has mounted with a user, a request of loadTrades has
\* failed, and nothing is in flight any more.
C3_Witness ==
    /\ stats.invoked = 3
    /\ pending = <<>>
    /\ call.method = "getTrades"
    /\ ~call.res.success
    /\ hookError # Null

\* C4: at most one request of loadTrades is in flight at any time, also at
\* the mount of the trade-management view.
C4_SingleFlight == Cardinality(LoadTradesInFlight) <= 1

\* C5: when the view is torn down each of the two channels subscribed at
\* mount is unsubscribed exactly once, none is unsubscribed before, and once
\* the view is torn down no step changes the hook's trades or analytics.
C5_UnsubscribedOnTeardown ==
    /\ [](view.state = "torndown" =>
            /\ channels = [trades |-> "removed", analytics |-> "removed"]
            /\ stats.unsubscribed = [trades |-> 1, analytics |-> 1])
    /\ [](view.state = "mounted" =>
            /\ channels = [trades |-> "subscribed", analytics |-> "subscribed"]
            /\ stats.unsubscribed = [trades |-> 0, analytics |-> 0])
    /\ [][view.state = "torndown" => (trades' = trades /\ analytics' = analytics)]_vars

\* C5 witness: after the teardown a trade the list holds was deleted at the
\* backend and an analytics row was recomputed, and the lists kept them.
C5_Witness ==
    /\ view.state = "torndown"
    /\ stats.unsubscribed = [trades |-> 1, analytics |-> 1]
    /\ Len(trades) = 1
    /\ tradesDb = {}
    /\ Len(analytics) = 1
    /\ analytics[1] \notin analyticsDb

\* The credentials a broker id is expected to hold: the six fields of the form
\* it was stored from, absent or empty ones as null, or the object of the last
\* update of its credentials.
ExpectedCredentials(e) ==
    IF e.by = "store"
    THEN [f \in CredentialFields |->
              IF e.data[f] = Undef \/ e.data[f] = Str("") THEN Null ELSE e.data[f]]
    ELSE e.data

AllAnswered(d) == \A k \in 1..Len(d.reqs) : d.reqs[k].outcome = "ok"

\* C7: encryption is reversible. Every stored row decrypts, under the key of
\* the build, to the credentials object that was encrypted into it; and
\* getBrokerCredentials by the owner of a row, when the backend answers,
\* succeeds with exactly those credentials: after storeBrokerCredentials(b)
\* the six fields of b with each absent or empty one as null.
C7_Reversible ==
    /\ \A r \in brokersDb :
          /\ entered[r.id] # Null
          /\ ~decrypt(r.api_key).threw
          /\ decrypt(r.api_key).value = ExpectedCredentials(entered[r.id])
    /\ (/\ call.method = "getBrokerCredentials"
        /\ AllAnswered(call)
        /\ OwnRows(brokersDb, call.args, call.user) # {})
       => /\ call.res.success
          /\ call.res.data.credentials = ExpectedCredentials(entered[call.args])
          /\ call.res.data.id = call.args

\* C7 witness: getBrokerCredentials has returned the credentials of a form
\* stored with a key, an empty secret, a null password and no user id.
C7_Witness ==
    /\ call.method = "getBrokerCredentials"
    /\ call.res.success
    /\ entered[call.args].by = "store"
    /\ entered[call.args].data.apiSecret = Str("")
    /\ entered[call.args].data.userId = Undef
    /\ call.res.data.credentials.apiKey = Str("key")
    /\ call.res.data.credentials.apiSecret = Null
    /\ call.res.data.credentials.userId = Null

\* The requests of an invocation that went to the backend client and ended
\* with an error or an exception.
BackendFaults(d) ==
    {k \in 1..Len(d.reqs) :
        d.reqs[k].op # "fetch" /\ d.reqs[k].outcome \in {"error", "throw"}}

\* C2: no service method rejects, and whenever the backend client returned an
\* error or raised an exception during the call, the method resolves to a
\* result with success = false and an error that is not null.
C2_FaultsReported ==
    call.method # "none" =>
        /\ call.settled = "resolved"
        /\ BackendFaults(call) # {} =>
              (call.res.success = FALSE /\ call.res.error # Null)

RECURSIVE Total(_)
Total(counts) == IF counts = <<>> THEN 0 ELSE Head(counts) + Total(Tail(counts))

\* C6: the sync functions of Zerodha, Interactive Brokers and Alpaca import
\* nothing. No request of syncFromBrokers writes to trades, the trades table
\* is as before when no Upstox import ran, each of the three reports
\* importedCount 0 whenever it succeeds, and totalImported is the count the
\* Upstox imports of this sync reported, 0 when there was none.
C6_StubsImportNothing ==
    call.method = "syncFromBrokers" =>
        /\ \A k \in 1..Len(call.reqs) : call.reqs[k].table # "trades"
        /\ call.imports = <<>> => call.tdb = call.before
        /\ call.res.data # Null =>
              /\ \A slot \in {"zerodha", "interactive", "alpaca"} :
                    call.res.data.brokerResults[slot].success =>
                        call.res.data.brokerResults[slot].data.importedCount = 0
              /\ call.res.data.totalImported = Total(call.imports)

\* C6 witness: one sync ran the Interactive Brokers function, which succeeded,
\* and an Upstox import that reported one trade.
C6_Witness ==
    /\ call.method = "syncFromBrokers"
    /\ call.res.success
    /\ call.res.data.brokerResults["interactive"].success
    /\ call.res.data.brokerResults["upstox"].success
    /\ call.res.data.brokerResults["upstox"].data.importedCount = 1
    /\ call.res.data.totalImported = 1

\* A value a required field of createTrade counts as present with: anything
\* but undefined, null, the empty string, 0 and NaN.
Present(x) == x \notin {Undef, Null, Str(""), Num(0), NaN}

AllPresent(a) == Present(a.instrument) /\ Present(a.quantity) /\ Present(a.entryPrice)

InsertIssued(d) == \E k \in 1..Len(d.reqs) : d.reqs[k].op = "insert"

Rejected(d, message) ==
    /\ ~InsertIssued(d)
    /\ d.res = [success |-> FALSE, data |-> Null, error |-> Str(message)]

\* C11: createTrade asks for the user first and issues the insert exactly
\* when the user is authenticated and instrument, quantity and entryPrice
\* are all truthy. Without a user it is rejected with 'User not
\* authenticated', also when fields are missing; with a user and a missing
\* field, a quantity or entryPrice of 0 included, with 'Missing required
\* trade data'. A rejected call issues no insert and leaves the table alone.
C11_InsertOnlyIfValid ==
    (call.method = "createTrade" /\ call.answered # "throw") =>
        LET authenticated == call.answered = "ok" /\ call.user # NoUser
        IN /\ call.reqs[1] = GetUserRequest
           /\ InsertIssued(call) <=> (authenticated /\ AllPresent(call.args))
           /\ ~authenticated => Rejected(call, "User not authenticated")
           /\ (authenticated /\ ~AllPresent(call.args)) =>
                 Rejected(call, "Missing required trade data")
           /\ (authenticated /\ Num(0) \in {call.args.quantity, call.args.entryPrice}) =>
                 Rejected(call, "Missing required trade data")
           /\ ~InsertIssued(call) => (~call.res.success /\ call.res.data = Null)

\* C11 witness: an authenticated user's createTrade with an instrument, a
\* price and the quantity 0 has been rejected as missing data.
C11_Witness ==
    /\ call.method = "createTrade"
    /\ call.answered = "ok"
    /\ call.user # NoUser
    /\ call.args.instrument = Str("AAPL")
    /\ call.args.quantity = Num(0)
    /\ call.args.entryPrice = Num(105)
    /\ Rejected(call, "Missing required trade data")

\* C11 witness of the order of the checks: no user and a missing field.
C11_WitnessOrder ==
    /\ call.method = "createTrade"
    /\ call.answered = "ok"
    /\ call.user = NoUser
    /\ call.args.instrument = Undef
    /\ Rejected(call, "User not authenticated")

\* The row addBroker stored, as the brokers table holds it now.
StoredRows(d) == {r \in brokersDb : r.id = d.res.data.id}

\* C12: a broker is created with status 'inactive', and once addBroker has
\* returned success its row has status 'active' if the connection test
\* succeeded and 'error' if it failed, also when the status update failed.
C12_VerifiedState ==
    (call.method = "addBroker" /\ call.res.success) =>
        /\ call.res.data.status = "inactive"
        /\ \A r \in StoredRows(call) :
              r.status = IF call.res.data.connectionTest.success
                         THEN "active" ELSE "error"

\* The positions in the requests of an invocation of a request on a table.
Positions(d, op, table) ==
    {k \in 1..Len(d.reqs) : d.reqs[k].op = op /\ d.reqs[k].table = table}

Before(S, T) == \A i \in S, j \in T : i < j

\* C13: addBroker stores the credentials, tests the connection, updates the
\* status and creates the trading account, in this order. When storing fails
\* it returns that failure and does nothing else; the trading account is
\* created only when the test succeeded; and when storing succeeded the
\* result is success = true with the result of the test attached, also when
\* the test failed.
C13_StepsInOrder ==
    call.method = "addBroker" =>
        LET stored == \E k \in Positions(call, "insert", "brokers") :
                         call.reqs[k].outcome = "ok"
            inserts == Positions(call, "insert", "brokers")
            selects == Positions(call, "select", "brokers")
            fetches == {k \in 1..Len(call.reqs) : call.reqs[k].op = "fetch"}
            updates == Positions(call, "update", "brokers")
            accountInserts == Positions(call, "insert", "trading_accounts")
        IN /\ Before(inserts, selects) /\ Before(selects, fetches)
           /\ Before(inserts \cup selects \cup fetches, updates)
           /\ Before(updates, accountInserts)
           /\ Cardinality(inserts) <= 1 /\ Cardinality(accountInserts) <= 1
           /\ ~stored =>
                 /\ call.steps = <<"storeBrokerCredentials">>
                 /\ ~call.res.success
                 /\ call.res.error \in {Str("User not authenticated"), BackendMessage,
                                        Str("Failed to store broker credentials")}
                 /\ selects \cup fetches \cup updates \cup accountInserts = {}
                 /\ brokersDb = call.before
           /\ stored =>
                 /\ call.res.success
                 /\ "connectionTest" \in DOMAIN call.res.data
                 /\ call.steps =
                       <<"storeBrokerCredentials", "testBrokerConnection",
                         "updateBrokerStatus">>
                       \o (IF call.res.data.connectionTest.success
                           THEN <<"createTradingAccountFromBroker">> ELSE <<>>)
                 /\ accountInserts # {} => call.res.data.connectionTest.success
                 /\ ~call.res.data.connectionTest.success =>
                       \A r \in accountsDb : r.broker_id # call.res.data.id

\* C13 witness: addBroker stored a broker whose connection test failed at the
\* broker's API; it updated the status, created no trading account and
\* returned success with the failed test attached.
C13_Witness ==
    /\ call.method = "addBroker"
    /\ call.res.success
    /\ call.res.data.connectionTest.error = Str("Invalid Zerodha credentials")
    /\ Len(call.steps) = 3
    /\ Positions(call, "update", "brokers") # {}
    /\ accountsDb = {}

\* C13 witness of the full sequence: the test succeeded and the account exists.
C13_WitnessAccount ==
    /\ call.method = "addBroker"
    /\ call.res.success
    /\ call.res.data.connectionTest.success
    /\ Len(call.steps) = 4
    /\ \E r \in accountsDb : r.broker_id = call.res.data.id

\* The request is not an update or delete of brokers, or it selects the rows
\* of the user by user_profile_id.
RestrictedTo(req, uid) ==
    (req.table = "brokers" /\ req.op \in {"update", "delete"}) =>
        /\ "user_profile_id" \in DOMAIN req.match
        /\ req.match.user_profile_id = uid

\* C14: every update or delete the client issues against brokers is restricted
\* to the rows of the authenticated user, and no operation changes or removes
\* a broker row of another user.
C14_OwnRowsOnly ==
    [][/\ \A k \in 1..Len(call'.reqs) : RestrictedTo(call'.reqs[k], user)
       /\ \A r \in brokersDb : r.user_profile_id # user => r \in brokersDb']_vars

BrokerOperations ==
    {"storeBrokerCredentials", "getBrokerCredentials", "updateBrokerCredentials",
     "updateBrokerStatus", "deleteBrokerCredentials", "testBrokerConnection"}

\* auth.getUser answered and gave no user: the session has none, or the
\* answer is an error.
NoneAuthenticated(d) ==
    /\ d.reqs[1].outcome # "throw"
    /\ user = NoUser \/ d.reqs[1].outcome = "error"

\* C15: every operation of BrokerCredentialService on the brokers table asks
\* for the authenticated user first; when there is none it returns
\* success = false with 'User not authenticated' and issues no request against
\* brokers, and testBrokerConnection returns that failure without a request
\* to a broker's API.
C15_UserCheckedFirst ==
    call.method \in BrokerOperations =>
        /\ call.reqs[1].op = "getUser"
        /\ \A k \in 2..Len(call.reqs) : call.reqs[k].op # "getUser"
        /\ NoneAuthenticated(call) =>
              /\ ~call.res.success
              /\ call.res.error = Str("User not authenticated")
              /\ \A k \in 1..Len(call.reqs) :
                    call.reqs[k].table # "brokers" /\ call.reqs[k].op # "fetch"
              /\ brokersDb = call.db

\* C15 witness: testBrokerConnection without a session has returned the
\* failure of getBrokerCredentials.
C15_Witness ==
    /\ call.method = "testBrokerConnection"
    /\ user = NoUser
    /\ call.reqs[1].outcome = "ok"
    /\ call.res = [success |-> FALSE, error |-> Str("User not authenticated")]
    /\ Len(call.reqs) = 1

\* C15 witness of the other operations: each has been refused for want of a
\* user while the table holds a row.
C15_WitnessDelete ==
    /\ call.method = "deleteBrokerCredentials"
    /\ NoneAuthenticated(call)
    /\ call.res.error = Str("User not authenticated")
    /\ \E r \in brokersDb : r.id = call.args

\* The ids of the brokers whose status is 'active'; syncFromBrokers leaves the
\* status of every row as it is.
ActiveIds == {r.id : r \in {q \in brokersDb : q.status = "active"}}

Range(seq) == {seq[k] : k \in 1..Len(seq)}

C16_WitnessNoList ==
    /\ call.method = "syncFromBrokers"
    /\ call.reqs[1].outcome = "error"
    /\ ActiveIds # {}
    /\ ~call.res.success

\* No loadTrades is in flight.
TradesAtRest == \A k \in 1..Len(pending) : pending[k].action # "loadTrades"

\* C18: when loadTrades requests with different filters overlapped and all
\* have settled successfully, the trades list is the result of the most
\* recently issued one, whatever the order of the responses. While the view is
\* mounted with a user every change of the filters issues a loadTrades, so
\* the most recently issued request is the one of the view's filters.
C18_LatestWins ==
    (/\ view.state = "mounted"
     /\ user # NoUser
     /\ stats.invoked > 0
     /\ stats.failed = 0
     /\ TradesAtRest)
    => trades = PgTradeAnswer(tradesDb, TradesQuery(view.filters))

\* The action of useTrading that sets and clears loading[key].
ActionOf(key) == IF key = "trades" THEN "loadTrades" ELSE "loadAccounts"

InFlight(key) == \E k \in 1..Len(pending) : pending[k].action = ActionOf(key)

\* C19: loading[key] is true whenever a request of the action of key is in
\* flight and false whenever none is, also when two requests of one action
\* overlap.
C19_FlagTracksRequests ==
    \A key \in {"trades", "accounts"} : loading[key] = InFlight(key)

\* C19, the half that holds: the flag of an action is false whenever no
\* request of it is in flight.
C19_FalseAtRest ==
    \A key \in {"trades", "accounts"} : ~InFlight(key) => ~loading[key]

\* C17: the trades list of useTrading never holds two entries with the same
\* id, under any interleaving of createTrade and loadTrades completions and of
\* realtime INSERT, UPDATE and DELETE events; the trades table itself holds
\* one row for an id at most.
C17_NoDuplicateIds ==
    \A i, j \in 1..Len(trades) : i # j => trades[i].id # trades[j].id

====
